---- MODULE Spec2Model ----
(***************************************************************************)
(* A model of zchee/llmctxenv: the file-copy primitives CopyFile and       *)
(* CopyDir (internal/fileio/fileio.go) and the pooled SHA-256 file hasher  *)
(* HashFile (fileio/fileio.go, in its two revisions), over a small POSIX   *)
(* file system.                                                            *)
(*                                                                         *)
(* A path is a sequence of names; the empty sequence is the empty path     *)
(* string "".  A file-system node is a record                              *)
(*   [kind, data, perm, target]                                            *)
(* kind "file" (data: its bytes), "dir", or "link" (target: a path).       *)
(* perm is the set of permission bits that matter to the code:             *)
(*   "r"  owner read, "w" owner write, "gw" group/other write,             *)
(*   "gr" group/other read and search.                                     *)
(* 0o755 is {"r", "w", "gr"}, 0o700 is {"r", "w"}.                         *)
(* The process runs as the (non-root) owner of every node.                 *)
(***************************************************************************)
EXTENDS Integers, Sequences, FiniteSets, TLC

VARIABLES
    fs,       \* the file system: real path -> node (root <<>> is not stored)
    fs0,      \* the file system when the calls started (for before/after claims)
    umask,    \* the process umask: the permission bits cleared on creation
    stack,    \* per goroutine: its call stack of CopyFile / CopyDir frames
    result,   \* per goroutine: "running", or the error its top-level call returned ("nil" = success)
    failed,   \* per goroutine: the first error any of its frames returned, with the file system right after it
    call,     \* per goroutine: the arguments of its top-level call
    created,  \* per goroutine: the files its exclusive creates made
    variant,  \* which revision of HashFile runs: "pooled" or "unsafe"
    hp,       \* per goroutine: the HashFile activation (pc and locals)
    pool,     \* per pool name: the set of objects resting in the pool
    made,     \* per pool name: how many objects New has made so far
    hashMem,  \* per hash object: the bytes written since its last Reset
    digestMem,\* per digest buffer object: the bytes of its backing array
    hexMem,   \* per hex buffer object: its bytes
    env,      \* the process environment: variable name -> value ("" when unset)
    LLMCtxEnvRoot, \* the package variable contextmanager.LLMCtxEnvRoot
    init0,    \* the environment and the root as they were after package initialisation
    assigned, \* whether LLMCtxEnvRoot has been assigned to since
    changes,  \* how many times the environment or the root has been changed since
    ret,      \* the last GlobalDir / LocalDir call: its arguments, what it read, what it returned
    replaced, \* the last dirnameReplacer.Replace call: its input and its output
    closes,   \* per goroutine: the dst.Close() calls of its CopyFile frames, in order
    branch,   \* per goroutine: the source entries its CopyDir frames switched on, with the case taken
    round,    \* per goroutine: how many top-level calls it has made
    list      \* the list command: its revision, its runs and what the last run did

vars == <<fs, fs0, umask, stack, result, failed, call, created, variant, hp, pool, made, hashMem, digestMem, hexMem,
          env, LLMCtxEnvRoot, init0, assigned, changes, ret, replaced,
          closes, branch, round, list>>

fsVars   == <<fs, fs0, umask, stack, result, failed, call, created, closes, branch, round>>
hashVars == <<variant, hp, pool, made, hashMem, digestMem, hexMem>>
ctxVars  == <<env, LLMCtxEnvRoot, init0, assigned, changes, ret, replaced>>
cmdVars  == <<list>>

(***************************************************************************)
(* Bounds                                                                  *)
(***************************************************************************)
\* Longest path (in components) the file system accepts: the PATH_MAX of the model.
MaxDepth == 4
\* Symbolic links followed in one path resolution before ELOOP.
MaxHops == 2
\* Number of goroutines calling CopyFile concurrently.
NCopiers == 2
\* Number of HashFile calls the goroutines make in all.
MaxCalls == 2

\* Length of the longest string given to the path sanitizer.
MaxLen == 3

\* Number of changes made to the environment and to the root variable
\* after the package was initialised.
MaxChanges == 1

\* Number of times the list command is run.
MaxRuns == 2

\* Number of times CopyDir is called with the same arguments, one call
\* after the other.
MaxRounds == 2

(***************************************************************************)
(* File system                                                             *)
(***************************************************************************)
Nil == "nil"

File(d, p)  == [kind |-> "file", data |-> d,    perm |-> p,          target |-> <<>>]
Dir(p)      == [kind |-> "dir",  data |-> <<>>, perm |-> p,          target |-> <<>>]
Link(t)     == [kind |-> "link", data |-> <<>>, perm |-> {"r", "w"}, target |-> t]

RootDir == Dir({"r", "w"})

Front(s) == SubSeq(s, 1, Len(s) - 1)
Last(s)  == s[Len(s)]

NoNode == [kind |-> "none", data |-> <<>>, perm |-> {}, target |-> <<>>]

\* The node at real path q (NoNode when nothing is there).
NodeAt(f, q) ==
    IF q = <<>> THEN RootDir
    ELSE IF q \in DOMAIN f THEN f[q]
    ELSE NoNode

\* Path resolution.  cur is the real directory reached so far, rest the
\* components still to walk; a symbolic link restarts the walk at its
\* (absolute) target.  follow: whether a link in the last component is
\* followed (stat, open) or not (lstat, O_EXCL create).
\* Result: [err, path]; with err = "ENOENT" and parent = TRUE the last
\* component alone is missing and path is where it would be created.
RECURSIVE Walk(_, _, _, _, _)
Walk(f, cur, rest, hops, follow) ==
    IF rest = <<>> THEN [err |-> Nil, path |-> cur, parent |-> TRUE]
    ELSE
      LET q == Append(cur, Head(rest)) IN
      IF NodeAt(f, cur).kind # "dir"
        THEN [err |-> "ENOTDIR", path |-> cur, parent |-> FALSE]
      ELSE IF NodeAt(f, q).kind = "none"
        THEN [err |-> "ENOENT", path |-> q, parent |-> (Tail(rest) = <<>>)]
      ELSE IF NodeAt(f, q).kind = "link" /\ (follow \/ Tail(rest) # <<>>)
        THEN IF hops = 0
               THEN [err |-> "ELOOP", path |-> q, parent |-> FALSE]
               ELSE Walk(f, <<>>, NodeAt(f, q).target \o Tail(rest), hops - 1, follow)
      ELSE Walk(f, q, Tail(rest), hops, follow)

Resolve(f, p, follow) ==
    IF p = <<>> THEN [err |-> "ENOENT", path |-> <<>>, parent |-> FALSE]
    ELSE IF Len(p) > MaxDepth THEN [err |-> "ENAMETOOLONG", path |-> <<>>, parent |-> FALSE]
    ELSE Walk(f, <<>>, p, MaxHops, follow)

\* os.Stat(p): follows links.  [err, node, path]
Stat(f, p) ==
    LET r == Resolve(f, p, TRUE) IN
    [err |-> r.err, path |-> r.path,
     node |-> IF r.err = Nil THEN NodeAt(f, r.path) ELSE NoNode]

\* os.Lstat(p): does not follow a link in the last component.
Lstat(f, p) ==
    LET r == Resolve(f, p, FALSE) IN
    [err |-> r.err, path |-> r.path,
     node |-> IF r.err = Nil THEN NodeAt(f, r.path) ELSE NoNode]

\* The names the model uses, in the lexicographic order os.ReadDir sorts by.
NameSeq == <<"a", "b", "c", "claude", "d", "gemini", "global", "r", "ro", "s", "t", "u">>

\* f with node n put at real path q.
Put(f, q, n) == [x \in DOMAIN f \cup {q} |-> IF x = q THEN n ELSE f[x]]

\* The mutant of Open: O_RDONLY|O_NOFOLLOW, which refuses a symbolic link.
OpenNoFollow(f, name) ==
    LET st == Lstat(f, name) IN
    IF st.err # Nil THEN [err |-> st.err, path |-> <<>>]
    ELSE IF st.node.kind = "link" THEN [err |-> "ELOOP", path |-> <<>>]
    ELSE IF "r" \notin st.node.perm THEN [err |-> "EACCES", path |-> <<>>]
    ELSE [err |-> Nil, path |-> st.path]

\* os.Open(name): O_RDONLY, follows links; a directory can be opened too.
\* [err, path]: path is the node the handle refers to.
Open(f, name) ==
    LET st == Stat(f, name) IN
    IF st.err # Nil THEN [err |-> st.err, path |-> <<>>]
    ELSE IF "r" \notin st.node.perm THEN [err |-> "EACCES", path |-> <<>>]
    ELSE [err |-> Nil, path |-> st.path]

\* The mutant of OpenFileExcl: O_WRONLY|O_CREATE|O_TRUNC, which truncates a
\* file that is already there.
OpenFileTrunc(f, name, perm, mask) ==
    LET r  == Resolve(f, name, TRUE)
        up == Front(r.path)
    IN
    IF r.err = Nil
      THEN IF NodeAt(f, r.path).kind = "dir"
             THEN [err |-> "EISDIR", path |-> <<>>, fs |-> f]
           ELSE IF "w" \notin NodeAt(f, r.path).perm
             THEN [err |-> "EACCES", path |-> <<>>, fs |-> f]
           ELSE [err |-> Nil, path |-> r.path,
                 fs |-> Put(f, r.path, [NodeAt(f, r.path) EXCEPT !.data = <<>>])]
    ELSE IF r.err = "ENOENT" /\ r.parent
      THEN IF "w" \notin NodeAt(f, up).perm
             THEN [err |-> "EACCES", path |-> <<>>, fs |-> f]
             ELSE [err |-> Nil, path |-> r.path, fs |-> Put(f, r.path, File(<<>>, perm \ mask))]
    ELSE [err |-> r.err, path |-> <<>>, fs |-> f]

\* os.OpenFile(name, O_WRONLY|O_CREATE|O_EXCL, perm): creates the file with
\* mode perm minus the umask, and fails with EEXIST when anything, a
\* symbolic link included, is already at name.  [err, path, fs]
OpenFileExcl(f, name, perm, mask) ==
    LET r  == Resolve(f, name, FALSE)
        up == Front(r.path)
    IN
    IF r.err = Nil THEN [err |-> "EEXIST", path |-> <<>>, fs |-> f]
    ELSE IF r.err = "ENOENT" /\ r.parent
      THEN IF "w" \notin NodeAt(f, up).perm
             THEN [err |-> "EACCES", path |-> <<>>, fs |-> f]
             ELSE [err |-> Nil, path |-> r.path, fs |-> Put(f, r.path, File(<<>>, perm \ mask))]
    ELSE [err |-> r.err, path |-> <<>>, fs |-> f]

\* os.Mkdir(name, perm).  [err, fs]
Mkdir(f, name, perm, mask) ==
    LET r  == Resolve(f, name, FALSE)
        up == Front(r.path)
    IN
    IF r.err = Nil THEN [err |-> "EEXIST", fs |-> f]
    ELSE IF r.err = "ENOENT" /\ r.parent
      THEN IF "w" \notin NodeAt(f, up).perm
             THEN [err |-> "EACCES", fs |-> f]
             ELSE [err |-> Nil, fs |-> Put(f, r.path, Dir(perm \ mask))]
    ELSE [err |-> r.err, fs |-> f]

\* os.MkdirAll(path, perm): nil when path is (or resolves to) a directory,
\* ENOTDIR when it is something else; otherwise the parents are made first,
\* then path itself.  [err, fs]
RECURSIVE MkdirAll(_, _, _, _)
MkdirAll(f, path, perm, mask) ==
    LET st == Stat(f, path) IN
    IF st.err = Nil
      THEN [err |-> IF st.node.kind = "dir" THEN Nil ELSE "ENOTDIR", fs |-> f]
    ELSE
      LET up == IF Len(path) > 1
                  THEN MkdirAll(f, Front(path), perm, mask)
                  ELSE [err |-> Nil, fs |-> f]
      IN
      IF up.err # Nil THEN up
      ELSE
        LET mk == Mkdir(up.fs, path, perm, mask)
            ls == Lstat(mk.fs, path)
        IN
        IF mk.err # Nil /\ ls.err = Nil /\ ls.node.kind = "dir"
          THEN [err |-> Nil, fs |-> mk.fs]
          ELSE mk

\* os.ReadDir(name): the names in the directory, sorted.  [err, entries]
ReadDir(f, name) ==
    LET st == Stat(f, name) IN
    IF st.err # Nil THEN [err |-> st.err, entries |-> <<>>]
    ELSE IF st.node.kind # "dir" THEN [err |-> "ENOTDIR", entries |-> <<>>]
    ELSE IF "r" \notin st.node.perm THEN [err |-> "EACCES", entries |-> <<>>]
    ELSE [err |-> Nil,
          entries |-> SelectSeq(NameSeq, LAMBDA n : Append(st.path, n) \in DOMAIN f)]

(***************************************************************************)
(* Call frames.  One record shape serves both functions; a field a         *)
(* function does not have stays at its zero value.                         *)
(*   CopyFile: dest, source, perm; src, dst (the open handles); err        *)
(*   CopyDir:  srcDir, destDir; entries (the rest of the listing, the      *)
(*             current entry first); fileInfo (its stat); err              *)
(***************************************************************************)
Frame0 ==
    [fn |-> "", pc |-> "", dest |-> <<>>, source |-> <<>>, perm |-> {},
     src |-> <<>>, dst |-> <<>>, srcDir |-> <<>>, destDir |-> <<>>,
     entries |-> <<>>, fileInfo |-> NoNode, err |-> Nil]

CopyFileFrame(dest, source, perm) ==
    [Frame0 EXCEPT !.fn = "CopyFile", !.pc = "open_src",
                   !.dest = dest, !.source = source, !.perm = perm]

CopyDirFrame(srcDir, destDir) ==
    [Frame0 EXCEPT !.fn = "CopyDir", !.pc = "mkdir",
                   !.srcDir = srcDir, !.destDir = destDir]

Top(g)       == stack[g][Len(stack[g])]
At(g, fn, pc) == stack[g] # <<>> /\ Top(g).fn = fn /\ Top(g).pc = pc

\* The top frame of g becomes fr.
SetTop(g, fr) == [stack EXCEPT ![g] = [@ EXCEPT ![Len(@)] = fr]]

\* The top frame of g becomes fr and calls callee.
Call(g, fr, callee) == [stack EXCEPT ![g] = Append([@ EXCEPT ![Len(@)] = fr], callee)]

\* The top frame of g returns e, the file system being f afterwards: the
\* caller's frame receives e in err; the outermost frame's e is the result.
Return(g, e, f) ==
    /\ IF Len(stack[g]) = 1
         THEN /\ stack' = [stack EXCEPT ![g] = <<>>]
              /\ result' = [result EXCEPT ![g] = e]
         ELSE /\ stack' = [stack EXCEPT ![g] =
                             [Front(@) EXCEPT ![Len(@) - 1].err = e]]
              /\ UNCHANGED result
    /\ failed' = IF e # Nil /\ failed[g].err = Nil
                   THEN [failed EXCEPT ![g] = [err |-> e, fs |-> f]]
                   ELSE failed

(***************************************************************************)
(* CopyFile(dest, source, perm)                                            *)
(***************************************************************************)
\* src, err := os.Open(source); if err != nil { return err }
CopyFileOpenSrcCreateFirst(g) ==
    /\ At(g, "CopyFile", "open_src")
    /\ LET o == Open(fs, Top(g).source)
           c == OpenFileExcl(fs, Top(g).dest, Top(g).perm, umask)
       IN
       IF o.err # Nil
         THEN Return(g, o.err, c.fs) /\ fs' = c.fs
         ELSE /\ stack' = SetTop(g, [Top(g) EXCEPT !.src = o.path, !.pc = "open_dst"])
              /\ UNCHANGED <<fs, result, failed>>
    /\ UNCHANGED <<fs0, umask, call, created, closes, branch, round, hashVars, ctxVars, cmdVars>>

CopyFileOpenSrc(g) ==
    /\ At(g, "CopyFile", "open_src")
    /\ LET o == Open(fs, Top(g).source) IN
       IF o.err # Nil
         THEN Return(g, o.err, fs)
         ELSE /\ stack' = SetTop(g, [Top(g) EXCEPT !.src = o.path, !.pc = "open_dst"])
              /\ UNCHANGED <<result, failed>>
    /\ UNCHANGED <<fs, fs0, umask, call, created, closes, branch, round, hashVars, ctxVars, cmdVars>>

\* dst, err := os.OpenFile(dest, O_WRONLY|O_CREATE|O_EXCL, perm)
\* if err != nil { return err }      (the deferred src.Close() runs)
CopyFileOpenDst(g) ==
    /\ At(g, "CopyFile", "open_dst")
    /\ LET o == OpenFileExcl(fs, Top(g).dest, Top(g).perm, umask) IN
       /\ fs' = o.fs
       /\ created' = IF o.err = Nil THEN [created EXCEPT ![g] = @ \cup {o.path}] ELSE created
       /\ IF o.err # Nil
            THEN Return(g, o.err, o.fs)
            ELSE /\ stack' = SetTop(g, [Top(g) EXCEPT !.dst = o.path, !.pc = "copy"])
                 /\ UNCHANGED <<result, failed>>
    /\ UNCHANGED <<fs0, umask, call, closes, branch, round, hashVars, ctxVars, cmdVars>>

\* _, err = io.Copy(dst, src): the bytes of src are written to dst from offset 0; reading
\* a directory fails (EISDIR), and any read or write can fail (EIO) after n
\* bytes went through.
CopyFileCopy(g) ==
    /\ At(g, "CopyFile", "copy")
    /\ LET from == NodeAt(fs, Top(g).src)
           to   == NodeAt(fs, Top(g).dst)
       IN
       \E n \in 0 .. Len(from.data), e \in {Nil, "EIO"} :
          /\ from.kind = "dir" => e = "EIO" /\ n = 0
          /\ e = Nil => n = Len(from.data)
          /\ fs' = Put(fs, Top(g).dst,
                       [to EXCEPT !.data = SubSeq(from.data, 1, n) \o SubSeq(@, n + 1, Len(@))])
          /\ stack' = SetTop(g, [Top(g) EXCEPT
                                   !.err = IF from.kind = "dir" THEN "EISDIR" ELSE e,
                                   !.pc = "close"])
    /\ UNCHANGED <<fs0, umask, result, failed, call, created, closes, branch, round, hashVars, ctxVars, cmdVars>>

\* What dst.Close() may return: nil, or the error of a write that the
\* system had put off (no space left).
CloseErrors == {Nil, "ENOSPC"}

\* The mutant of CopyFileClose: err = closeErr whenever the close failed.
CopyFileCloseShadow(g) ==
    /\ At(g, "CopyFile", "close")
    /\ \E closeErr \in CloseErrors :
          LET err == IF closeErr # Nil THEN closeErr ELSE Top(g).err IN
          /\ Return(g, err, fs)
          /\ closes' = [closes EXCEPT ![g] =
                           Append(@, [dst |-> Top(g).dst, copyErr |-> Top(g).err,
                                      closeErr |-> closeErr, ret |-> err])]
    /\ UNCHANGED <<fs, fs0, umask, call, created, branch, round, hashVars, ctxVars, cmdVars>>

\* if closeErr := dst.Close(); err == nil { err = closeErr }; return err
CopyFileClose(g) ==
    /\ At(g, "CopyFile", "close")
    /\ \E closeErr \in CloseErrors :
          LET err == IF Top(g).err = Nil THEN closeErr ELSE Top(g).err IN
          /\ Return(g, err, fs)
          /\ closes' = [closes EXCEPT ![g] =
                           Append(@, [dst |-> Top(g).dst, copyErr |-> Top(g).err,
                                      closeErr |-> closeErr, ret |-> err])]
    /\ UNCHANGED <<fs, fs0, umask, call, created, branch, round, hashVars, ctxVars, cmdVars>>

(***************************************************************************)
(* CopyDir(srcDir, destDir)                                                *)
(***************************************************************************)
\* The mutant of CopyDirMkdirAll: destDir is not made before srcDir is listed.
CopyDirMkdirAllSkip(g) ==
    /\ At(g, "CopyDir", "mkdir")
    /\ stack' = SetTop(g, [Top(g) EXCEPT !.pc = "readdir"])
    /\ UNCHANGED <<fs, fs0, umask, result, failed, call, created, closes, branch, round, hashVars, ctxVars, cmdVars>>

\* if err := os.MkdirAll(destDir, 0o755); err != nil { return err }
CopyDirMkdirAll(g) ==
    /\ At(g, "CopyDir", "mkdir")
    /\ LET m == MkdirAll(fs, Top(g).destDir, {"r", "w", "gr"}, umask) IN
       /\ fs' = m.fs
       /\ IF m.err # Nil
            THEN Return(g, m.err, m.fs)
            ELSE /\ stack' = SetTop(g, [Top(g) EXCEPT !.pc = "readdir"])
                 /\ UNCHANGED <<result, failed>>
    /\ UNCHANGED <<fs0, umask, call, created, closes, branch, round, hashVars, ctxVars, cmdVars>>

\* entries, err := os.ReadDir(srcDir); if err != nil { return err }
CopyDirReadDir(g) ==
    /\ At(g, "CopyDir", "readdir")
    /\ LET r == ReadDir(fs, Top(g).srcDir) IN
       IF r.err # Nil
         THEN Return(g, r.err, fs)
         ELSE /\ stack' = SetTop(g, [Top(g) EXCEPT !.entries = r.entries, !.pc = "loop"])
              /\ UNCHANGED <<result, failed>>
    /\ UNCHANGED <<fs, fs0, umask, call, created, closes, branch, round, hashVars, ctxVars, cmdVars>>

\* for _, entry := range entries { fileInfo, err := os.Stat(src); ... }
\* and, the range being exhausted, return nil.
CopyDirStat(g) ==
    /\ At(g, "CopyDir", "loop")
    /\ IF Top(g).entries = <<>>
         THEN Return(g, Nil, fs)
         ELSE LET st == Stat(fs, Append(Top(g).srcDir, Head(Top(g).entries))) IN
              IF st.err # Nil
                THEN Return(g, st.err, fs)
                ELSE /\ stack' = SetTop(g, [Top(g) EXCEPT
                                              !.fileInfo = st.node,
                                              !.pc = IF st.node.kind = "dir"
                                                       THEN "case_dir" ELSE "case_default"])
                     /\ UNCHANGED <<result, failed>>
    /\ UNCHANGED <<fs, fs0, umask, call, created, closes, branch, round, hashVars, ctxVars, cmdVars>>

\* case os.ModeDir: os.MkdirAll(dest, 0755), then CopyDir(src, dest)
CopyDirCaseDir(g) ==
    /\ At(g, "CopyDir", "case_dir")
    /\ LET src  == Append(Top(g).srcDir, Head(Top(g).entries))
           dest == Append(Top(g).destDir, Head(Top(g).entries))
           m    == MkdirAll(fs, dest, {"r", "w", "gr"}, umask)
       IN
       /\ fs' = m.fs
       /\ branch' = [branch EXCEPT ![g] = @ \cup {<<src, "ModeDir">>}]
       /\ IF m.err # Nil
            THEN Return(g, m.err, m.fs)
            ELSE /\ stack' = Call(g, [Top(g) EXCEPT !.pc = "called"], CopyDirFrame(src, dest))
                 /\ UNCHANGED <<result, failed>>
    /\ UNCHANGED <<fs0, umask, call, created, closes, round, hashVars, ctxVars, cmdVars>>

\* default: os.MkdirAll(filepath.Dir(dest), 0755), then
\* CopyFile(dest, src, fileInfo.Mode().Perm())
CopyDirCaseDefault(g) ==
    /\ At(g, "CopyDir", "case_default")
    /\ LET src  == Append(Top(g).srcDir, Head(Top(g).entries))
           dest == Append(Top(g).destDir, Head(Top(g).entries))
           m    == MkdirAll(fs, Front(dest), {"r", "w", "gr"}, umask)
       IN
       /\ fs' = m.fs
       /\ branch' = [branch EXCEPT ![g] = @ \cup {<<src, "default">>}]
       /\ IF m.err # Nil
            THEN Return(g, m.err, m.fs)
            ELSE /\ stack' = Call(g, [Top(g) EXCEPT !.pc = "called"],
                                  CopyFileFrame(dest, src, Top(g).fileInfo.perm))
                 /\ UNCHANGED <<result, failed>>
    /\ UNCHANGED <<fs0, umask, call, created, closes, round, hashVars, ctxVars, cmdVars>>

\* The mutant of CopyDirCalled: the error of the call is dropped and the
\* loop goes on with the next entry.
CopyDirCalledIgnoreErr(g) ==
    /\ At(g, "CopyDir", "called")
    /\ stack' = SetTop(g, [Top(g) EXCEPT !.entries = Tail(@), !.err = Nil, !.pc = "loop"])
    /\ UNCHANGED <<fs, fs0, umask, result, failed, call, created, closes, branch, round, hashVars, ctxVars, cmdVars>>

\* The mutant of CopyDirCalled: after a call that succeeded the loop does
\* not move on to the next entry.
CopyDirCalledStay(g) ==
    /\ At(g, "CopyDir", "called")
    /\ IF Top(g).err # Nil
         THEN Return(g, Top(g).err, fs)
         ELSE /\ stack' = SetTop(g, [Top(g) EXCEPT !.pc = "loop"])
              /\ UNCHANGED <<result, failed>>
    /\ UNCHANGED <<fs, fs0, umask, call, created, closes, branch, round, hashVars, ctxVars, cmdVars>>

\* if err := CopyDir(src, dest) / CopyFile(...); err != nil { return err }
\* and otherwise the next entry.
CopyDirCalled(g) ==
    /\ At(g, "CopyDir", "called")
    /\ IF Top(g).err # Nil
         THEN Return(g, Top(g).err, fs)
         ELSE /\ stack' = SetTop(g, [Top(g) EXCEPT !.entries = Tail(@), !.pc = "loop"])
              /\ UNCHANGED <<result, failed>>
    /\ UNCHANGED <<fs, fs0, umask, call, created, closes, branch, round, hashVars, ctxVars, cmdVars>>

\* CopyDir(srcDir, destDir) having returned nil, the caller calls it again
\* with the same arguments.
CopyDirAgain(g) ==
    /\ stack[g] = <<>> /\ result[g] = Nil
    /\ call[g].fn = "CopyDir"
    /\ round[g] < MaxRounds
    /\ round' = [round EXCEPT ![g] = @ + 1]
    /\ stack' = [stack EXCEPT ![g] = <<call[g]>>]
    /\ result' = [result EXCEPT ![g] = "running"]
    /\ fs0' = fs
    /\ failed' = [failed EXCEPT ![g] = [err |-> Nil, fs |-> <<>>]]
    /\ created' = [created EXCEPT ![g] = {}]
    /\ closes' = [closes EXCEPT ![g] = <<>>]
    /\ branch' = [branch EXCEPT ![g] = {}]
    /\ UNCHANGED <<fs, umask, call, hashVars, ctxVars, cmdVars>>

(***************************************************************************)
(* The pools and HashFile.                                                 *)
(*                                                                         *)
(* A pool is a gsync.Pool (sync.Pool): Get hands out an object resting in  *)
(* the pool, or a new one made by New; Put lays an object to rest.  An     *)
(* object is a number; pool[name][o] counts how many times o rests in the  *)
(* pool (twice after a double Put), made[name] how many objects New made.  *)
(* A HashFile activation hp[g] holds the objects it has in its locals      *)
(* (0: none).                                                              *)
(***************************************************************************)
\* sha256simd.Size: the bytes of a SHA-256 sum.
Size == 32

\* The goroutines calling HashFile concurrently.
Hashers == {"h1", "h2"}

\* At most one object per pool and goroutine is ever in use, so New never
\* needs to make more than this many.
PoolCap == Cardinality(Hashers)

Objects == 1 .. PoolCap

HexTable == <<"0", "1", "2", "3", "4", "5", "6", "7",
              "8", "9", "a", "b", "c", "d", "e", "f">>

\* make([]byte, n): n zero bytes (for the hex buffer, n NUL characters).
Zeros(n)    == [i \in 1 .. n |-> 0]
NulChars(n) == [i \in 1 .. n |-> "NUL"]

\* The SHA-256 compression of the bytes written, as a number: a stand-in
\* that, like SHA-256, is a function of the byte sequence alone and tells
\* the model's byte sequences apart.
RECURSIVE Absorb(_, _)
Absorb(acc, bytes) ==
    IF bytes = <<>> THEN acc
    ELSE Absorb((acc * 31 + Head(bytes) + 1) % 65521, Tail(bytes))

\* h.Sum(b[:0]): the Size bytes of the sum of what was written to h.
Sum256(written) ==
    LET acc == Absorb(7, written) IN [i \in 1 .. Size |-> (acc + 37 * i) % 256]

\* The mutant of Encode: the digits of "%X", upper case.
UpperTable == <<"0", "1", "2", "3", "4", "5", "6", "7",
                "8", "9", "A", "B", "C", "D", "E", "F">>
EncodeUpper(dst, src) ==
    [i \in 1 .. Len(dst) |->
        IF i > 2 * Len(src) THEN dst[i]
        ELSE IF i % 2 = 1 THEN UpperTable[(src[(i + 1) \div 2] \div 16) + 1]
        ELSE UpperTable[(src[i \div 2] % 16) + 1]]

\* hex.Encode(dst, src): two lowercase hex digits per byte; dst[2*Len(src)..] stays.
Encode(dst, src) ==
    [i \in 1 .. Len(dst) |->
        IF i > 2 * Len(src) THEN dst[i]
        ELSE IF i % 2 = 1 THEN HexTable[(src[(i + 1) \div 2] \div 16) + 1]
        ELSE HexTable[(src[i \div 2] % 16) + 1]]

\* The mutant of GetChoices: a pool that also hands out objects that are
\* not resting in it.
GetChoicesAny(name) ==
    (1 .. made[name]) \cup (IF made[name] < PoolCap THEN {made[name] + 1} ELSE {})

\* The objects Get of pool name may hand out: one resting in the pool, or
\* (made[name] + 1) a new one.
GetChoices(name) ==
    {o \in 1 .. made[name] : pool[name][o] > 0}
      \cup (IF made[name] < PoolCap THEN {made[name] + 1} ELSE {})

\* pool and made after Get of pool name handed out o.
PoolAfterGet(name, o) ==
    IF o = made[name] + 1 THEN pool
    ELSE [pool EXCEPT ![name][o] = @ - 1]
MadeAfterGet(name, o) ==
    IF o = made[name] + 1 THEN [made EXCEPT ![name] = o] ELSE made

\* pool after Put of o into pool name.
PoolAfterPut(name, o) == [pool EXCEPT ![name][o] = @ + 1]

\* The files the HashFile tests build in a temporary directory.
HashWorld ==
    (<<"a">> :> File(<<1, 2>>, {"r", "w"}))   @@
    (<<"b">> :> File(<<3>>, {"r", "w"}))      @@
    (<<"c">> :> File(<<1, 2>>, {"r"}))        @@
    (<<"d">> :> Dir({"r", "w"}))              @@
    (<<"k">> :> Link(<<"x">>))                @@
    (<<"l">> :> Link(<<"a">>))                @@
    (<<"n">> :> File(<<5>>, {}))

\* Two files of the same bytes under different names and modes, a file of
\* other bytes, a directory, a broken link, a link to a file, a file
\* without read permission, a missing file, the empty path.
HashPaths == <<
    <<"a">>, <<"b">>, <<"c">>, <<"d">>, <<"k">>, <<"l">>, <<"n">>, <<"x">>, <<>> >>

PoolNames == {"hash", "copyBuf", "digest", "hex"}

\* A HashFile activation.  out: the bytes of the string built (pooled
\* revision); ref: the hex buffer the string points into (unsafe revision);
\* returned: the value of the string at the moment HashFile returned it.
Hp0(path) ==
    [pc |-> "open", path |-> path, f |-> <<>>, h |-> 0, buf |-> 0, digest |-> 0,
     hexbuf |-> 0, out |-> <<>>, ref |-> 0, err |-> Nil, returned |-> <<>>,
     gets |-> 0, puts |-> 0, calls |-> 0]

HAt(g, pc) == hp[g].pc = pc

\* The string g's HashFile returned, as the caller reads it now.
StrVal(g) == IF hp[g].ref = 0 THEN hp[g].out ELSE hexMem[hp[g].ref]

\* The number of HashFile calls the goroutines of S have made.
RECURSIVE Calls(_)
Calls(S) ==
    IF S = {} THEN 0
    ELSE LET g == CHOOSE x \in S : TRUE IN hp[g].calls + Calls(S \ {g})

\* HashFile(path) is called, g having no call in progress:
\* f, err := os.Open(path); if err != nil { return "", err }; defer f.Close()
HashFileOpen(g) ==
    /\ hp[g].pc \in {"idle", "done"}
    /\ Calls(Hashers) < MaxCalls
    /\ \E i \in DOMAIN HashPaths :
          LET path == HashPaths[i]
              o    == Open(fs, path)
              new  == [Hp0(path) EXCEPT !.calls = hp[g].calls + 1]
          IN
          hp' = [hp EXCEPT ![g] =
                   IF o.err # Nil
                     THEN [new EXCEPT !.pc = "done", !.err = o.err]
                     ELSE [new EXCEPT !.pc = "get_hash", !.f = o.path]]
    /\ UNCHANGED <<fsVars, cmdVars, ctxVars, variant, pool, made, hashMem, digestMem, hexMem>>

\* The mutant of HashFileGetHash: h.Reset() is left out.
HashFileGetHashNoReset(g) ==
    /\ HAt(g, "get_hash")
    /\ \E o \in GetChoices("hash") :
          /\ pool' = PoolAfterGet("hash", o)
          /\ made' = MadeAfterGet("hash", o)
          /\ hashMem' = IF o = made["hash"] + 1 THEN [hashMem EXCEPT ![o] = <<>>] ELSE hashMem
          /\ hp' = [hp EXCEPT ![g].h = o, ![g].gets = @ + 1,
                              ![g].pc = IF variant = "pooled" THEN "get_buf" ELSE "copy"]
    /\ UNCHANGED <<fsVars, cmdVars, ctxVars, variant, digestMem, hexMem>>

\* h := hashPool.Get(); defer hashPool.Put(h); h.Reset()
HashFileGetHash(g) ==
    /\ HAt(g, "get_hash")
    /\ \E o \in GetChoices("hash") :
          /\ pool' = PoolAfterGet("hash", o)
          /\ made' = MadeAfterGet("hash", o)
          /\ hashMem' = [hashMem EXCEPT ![o] = <<>>]
          /\ hp' = [hp EXCEPT ![g].h = o, ![g].gets = @ + 1,
                              ![g].pc = IF variant = "pooled" THEN "get_buf" ELSE "copy"]
    /\ UNCHANGED <<fsVars, cmdVars, ctxVars, variant, digestMem, hexMem>>

\* buf := copyBufPool.Get()
\* io.CopyBuffer(h, f, *buf): the bytes of f are written to h; reading a
\* directory fails with EISDIR.  The buffer is scratch space that
\* io.CopyBuffer fills before it reads it, so only its lease is kept.
HashFileCopyBuffer(g) ==
    /\ variant = "pooled"
    /\ HAt(g, "get_buf")
    /\ \E o \in GetChoices("copyBuf") :
          LET from == NodeAt(fs, hp[g].f) IN
          /\ pool' = PoolAfterGet("copyBuf", o)
          /\ made' = MadeAfterGet("copyBuf", o)
          /\ hashMem' = [hashMem EXCEPT ![hp[g].h] = @ \o from.data]
          /\ hp' = [hp EXCEPT ![g].buf = o, ![g].gets = @ + 1,
                              ![g].err = IF from.kind = "dir" THEN "EISDIR" ELSE Nil,
                              ![g].pc = "put_buf"]
    /\ UNCHANGED <<fsVars, cmdVars, ctxVars, variant, digestMem, hexMem>>

\* copyBufPool.Put(buf), on the error path (followed by return "", err) and
\* on the success path alike.
HashFilePutCopyBuf(g) ==
    /\ variant = "pooled"
    /\ HAt(g, "put_buf")
    /\ pool' = PoolAfterPut("copyBuf", hp[g].buf)
    /\ hp' = [hp EXCEPT ![g].buf = 0, ![g].puts = @ + 1,
                        ![g].pc = IF hp[g].err # Nil THEN "return" ELSE "get_digest"]
    /\ UNCHANGED <<fsVars, cmdVars, ctxVars, variant, made, hashMem, digestMem, hexMem>>

\* digest := digestPool.Get(); sum := h.Sum((*digest)[:0])
\* The sum is written into the digest buffer, and sum is that memory.
HashFileSum(g) ==
    /\ variant = "pooled"
    /\ HAt(g, "get_digest")
    /\ \E o \in GetChoices("digest") :
          /\ pool' = PoolAfterGet("digest", o)
          /\ made' = MadeAfterGet("digest", o)
          /\ digestMem' = [digestMem EXCEPT ![o] = Sum256(hashMem[hp[g].h])]
          /\ hp' = [hp EXCEPT ![g].digest = o, ![g].gets = @ + 1, ![g].pc = "get_hex"]
    /\ UNCHANGED <<fsVars, cmdVars, ctxVars, variant, hashMem, hexMem>>

\* The mutant of HashFileEncode: the string is made to point into the hex
\* buffer (unsafe.String) instead of being copied out of it.
HashFileEncodeAlias(g) ==
    /\ variant = "pooled"
    /\ HAt(g, "get_hex")
    /\ \E o \in GetChoices("hex") :
          LET old == IF o = made["hex"] + 1 THEN NulChars(2 * Size) ELSE hexMem[o]
              new == Encode(old, digestMem[hp[g].digest])
          IN
          /\ pool' = PoolAfterGet("hex", o)
          /\ made' = MadeAfterGet("hex", o)
          /\ hexMem' = [hexMem EXCEPT ![o] = new]
          /\ hp' = [hp EXCEPT ![g].hexbuf = o, ![g].gets = @ + 1,
                              ![g].ref = o, ![g].pc = "put_hex"]
    /\ UNCHANGED <<fsVars, cmdVars, ctxVars, variant, hashMem, digestMem>>

\* hexbuf := hexPool.Get(); n := hex.Encode((*hexbuf)[:], sum)
\* out := string((*hexbuf)[:n])     (a copy of the n bytes)
HashFileEncode(g) ==
    /\ variant = "pooled"
    /\ HAt(g, "get_hex")
    /\ \E o \in GetChoices("hex") :
          LET old == IF o = made["hex"] + 1 THEN NulChars(2 * Size) ELSE hexMem[o]
              sum == digestMem[hp[g].digest]
              new == Encode(old, sum)
              n   == 2 * Len(sum)
          IN
          /\ pool' = PoolAfterGet("hex", o)
          /\ made' = MadeAfterGet("hex", o)
          /\ hexMem' = [hexMem EXCEPT ![o] = new]
          /\ hp' = [hp EXCEPT ![g].hexbuf = o, ![g].gets = @ + 1,
                              ![g].out = SubSeq(new, 1, n), ![g].pc = "put_hex"]
    /\ UNCHANGED <<fsVars, cmdVars, ctxVars, variant, hashMem, digestMem>>

\* hexPool.Put(hexbuf)
HashFilePutHex(g) ==
    /\ variant = "pooled"
    /\ HAt(g, "put_hex")
    /\ pool' = PoolAfterPut("hex", hp[g].hexbuf)
    /\ hp' = [hp EXCEPT ![g].hexbuf = 0, ![g].puts = @ + 1, ![g].pc = "put_digest"]
    /\ UNCHANGED <<fsVars, cmdVars, ctxVars, variant, made, hashMem, digestMem, hexMem>>

\* digestPool.Put(digest)
HashFilePutDigest(g) ==
    /\ variant = "pooled"
    /\ HAt(g, "put_digest")
    /\ pool' = PoolAfterPut("digest", hp[g].digest)
    /\ hp' = [hp EXCEPT ![g].digest = 0, ![g].puts = @ + 1, ![g].pc = "return"]
    /\ UNCHANGED <<fsVars, cmdVars, ctxVars, variant, made, hashMem, digestMem, hexMem>>

\* The mutant of HashFileReturn: the error path forgets hashPool.Put(h).
HashFileReturnLeak(g) ==
    /\ HAt(g, "return")
    /\ pool' = IF hp[g].err = Nil THEN PoolAfterPut("hash", hp[g].h) ELSE pool
    /\ hp' = [hp EXCEPT ![g].h = IF hp[g].err = Nil THEN 0 ELSE @,
                        ![g].puts = IF hp[g].err = Nil THEN @ + 1 ELSE @,
                        ![g].out = IF hp[g].err # Nil THEN <<>> ELSE @,
                        ![g].returned = IF hp[g].err # Nil THEN <<>> ELSE StrVal(g),
                        ![g].pc = "done"]
    /\ UNCHANGED <<fsVars, cmdVars, ctxVars, variant, made, hashMem, digestMem, hexMem>>

\* return out, nil / return "", err: the deferred hashPool.Put(h) and
\* f.Close() run.
HashFileReturn(g) ==
    /\ HAt(g, "return")
    /\ pool' = PoolAfterPut("hash", hp[g].h)
    /\ hp' = [hp EXCEPT ![g].h = 0, ![g].puts = @ + 1,
                        ![g].out = IF hp[g].err # Nil THEN <<>> ELSE @,
                        ![g].ref = IF hp[g].err # Nil THEN 0 ELSE @,
                        ![g].returned = IF hp[g].err # Nil THEN <<>> ELSE StrVal(g),
                        ![g].pc = "done"]
    /\ UNCHANGED <<fsVars, cmdVars, ctxVars, variant, made, hashMem, digestMem, hexMem>>

(***************************************************************************)
(* HashFile, the unsafe.String revision.  It shares os.Open, the hash pool *)
(* and the return with the pooled revision.                                *)
(***************************************************************************)
\* if _, err := io.Copy(h, f); err != nil { return "", err }
UnsafeHashFileCopy(g) ==
    /\ variant = "unsafe"
    /\ HAt(g, "copy")
    /\ LET from == NodeAt(fs, hp[g].f) IN
       /\ hashMem' = [hashMem EXCEPT ![hp[g].h] = @ \o from.data]
       /\ hp' = [hp EXCEPT ![g].err = IF from.kind = "dir" THEN "EISDIR" ELSE Nil,
                           ![g].pc = IF from.kind = "dir" THEN "return" ELSE "get_bytes"]
    /\ UNCHANGED <<fsVars, cmdVars, ctxVars, variant, pool, made, digestMem, hexMem>>

\* dst := bytesPool.Get(); defer bytesPool.Put(dst)
\* src := h.Sum(nil); hex.Encode(*dst, src)
\* out := unsafe.String(unsafe.SliceData(*dst), len(*dst))
\* The string is the memory of dst, not a copy of it.
UnsafeHashFileEncode(g) ==
    /\ variant = "unsafe"
    /\ HAt(g, "get_bytes")
    /\ \E o \in GetChoices("hex") :
          LET old == IF o = made["hex"] + 1 THEN NulChars(2 * Size) ELSE hexMem[o] IN
          /\ pool' = PoolAfterGet("hex", o)
          /\ made' = MadeAfterGet("hex", o)
          /\ hexMem' = [hexMem EXCEPT ![o] = Encode(old, Sum256(hashMem[hp[g].h]))]
          /\ hp' = [hp EXCEPT ![g].hexbuf = o, ![g].gets = @ + 1,
                              ![g].ref = o, ![g].pc = "put_bytes"]
    /\ UNCHANGED <<fsVars, cmdVars, ctxVars, variant, hashMem, digestMem>>

\* return out, nil: the deferred bytesPool.Put(dst) runs first.
UnsafeHashFilePutBytes(g) ==
    /\ variant = "unsafe"
    /\ HAt(g, "put_bytes")
    /\ pool' = PoolAfterPut("hex", hp[g].hexbuf)
    /\ hp' = [hp EXCEPT ![g].hexbuf = 0, ![g].puts = @ + 1, ![g].pc = "return"]
    /\ UNCHANGED <<fsVars, cmdVars, ctxVars, variant, made, hashMem, digestMem, hexMem>>

(***************************************************************************)
(* Strings and paths of package contextmanager.  A string is the sequence  *)
(* of its characters; "" is <<>>.                                          *)
(***************************************************************************)
\* string(filepath.Separator)
Separator == "/"

\* filepath.IsAbs(path)
IsAbs(path) == path # <<>> /\ path[1] = Separator

\* strings.HasPrefix(s, prefix)
HasPrefix(s, prefix) ==
    Len(s) >= Len(prefix) /\ SubSeq(s, 1, Len(prefix)) = prefix

\* The mutant of TrimPrefix: the prefix is cut off whether or not s starts
\* with it (s[len(prefix):]).
TrimPrefixBlind(s, prefix) ==
    IF Len(s) >= Len(prefix) THEN SubSeq(s, Len(prefix) + 1, Len(s)) ELSE <<>>

\* strings.TrimPrefix(s, prefix)
TrimPrefix(s, prefix) ==
    IF HasPrefix(s, prefix) THEN SubSeq(s, Len(prefix) + 1, Len(s)) ELSE s

\* The pieces of s from position i on, piece being the piece in progress.
RECURSIVE SplitFrom(_, _, _)
SplitFrom(s, i, piece) ==
    IF i > Len(s) THEN <<piece>>
    ELSE IF s[i] = Separator THEN <<piece>> \o SplitFrom(s, i + 1, <<>>)
    ELSE SplitFrom(s, i + 1, Append(piece, s[i]))

\* strings.Split(s, "/"): the pieces of s between separators.
SplitPath(s) == SplitFrom(s, 1, <<>>)

\* strings.Join(elem, "/")
RECURSIVE JoinSep(_)
JoinSep(elem) ==
    IF elem = <<>> THEN <<>>
    ELSE IF Len(elem) = 1 THEN elem[1]
    ELSE elem[1] \o <<Separator>> \o JoinSep(Tail(elem))

\* The elements filepath.Clean keeps: empty and "." elements go, ".." takes
\* the element before it away (at the root it goes itself, at the start of
\* a relative path it stays).
RECURSIVE CleanElems(_, _, _)
CleanElems(rooted, kept, rest) ==
    IF rest = <<>> THEN kept
    ELSE LET e == Head(rest) IN
         IF e = <<>> \/ e = <<".">> THEN CleanElems(rooted, kept, Tail(rest))
         ELSE IF e = <<".", ".">> THEN
            IF kept # <<>> /\ kept[Len(kept)] # <<".", ".">>
              THEN CleanElems(rooted, SubSeq(kept, 1, Len(kept) - 1), Tail(rest))
            ELSE IF rooted THEN CleanElems(rooted, kept, Tail(rest))
            ELSE CleanElems(rooted, Append(kept, e), Tail(rest))
         ELSE CleanElems(rooted, Append(kept, e), Tail(rest))

\* filepath.Clean(path)
Clean(path) ==
    IF path = <<>> THEN <<".">>
    ELSE LET rooted == IsAbs(path)
             out    == (IF rooted THEN <<Separator>> ELSE <<>>)
                          \o JoinSep(CleanElems(rooted, <<>>, SplitPath(path)))
         IN IF out = <<>> THEN <<".">> ELSE out

\* The mutant of Join: the elements are glued with separators and the
\* result is not cleaned, so an empty element leaves its separator.
JoinRaw(elem) == JoinSep(elem)

\* filepath.Join(elem...): empty elements are ignored, the result is
\* cleaned; "" when every element is empty.
Join(elem) ==
    IF \A i \in 1 .. Len(elem) : elem[i] = <<>> THEN <<>>
    ELSE LET i == CHOOSE k \in 1 .. Len(elem) :
                     elem[k] # <<>> /\ \A j \in 1 .. k - 1 : elem[j] = <<>>
         IN Clean(JoinSep(SubSeq(elem, i, Len(elem))))

\* The mutant of Or: the last non-empty value.
OrLast(a, b) == IF b # <<>> THEN b ELSE a

\* cmp.Or(a, b): the first value that is not the zero value "".
Or(a, b) == IF a # <<>> THEN a ELSE b

(***************************************************************************)
(* dirnameReplacer: strings.NewReplacer(old1, new1, old2, new2, ...).      *)
(* Every old string is one byte, so Replace maps the input byte by byte.   *)
(***************************************************************************)
\* The arguments of strings.NewReplacer in contextmanager.go, in pairs.
DirnamePairs == <<
    <<".", <<"-">>>>,
    <<Separator, <<"-">>>>,
    <<"A", <<"!", "a">>>>,
    <<"B", <<"!", "b">>>>,
    <<"C", <<"!", "c">>>>,
    <<"D", <<"!", "d">>>>,
    <<"E", <<"!", "e">>>>,
    <<"F", <<"!", "f">>>>,
    <<"G", <<"!", "g">>>>,
    <<"H", <<"!", "h">>>>,
    <<"I", <<"!", "i">>>>,
    <<"J", <<"!", "j">>>>,
    <<"K", <<"!", "k">>>>,
    <<"L", <<"!", "l">>>>,
    <<"M", <<"!", "m">>>>,
    <<"N", <<"!", "n">>>>,
    <<"O", <<"!", "o">>>>,
    <<"P", <<"!", "p">>>>,
    <<"Q", <<"!", "q">>>>,
    <<"R", <<"!", "r">>>>,
    <<"S", <<"!", "s">>>>,
    <<"T", <<"!", "t">>>>,
    <<"U", <<"!", "u">>>>,
    <<"V", <<"!", "v">>>>,
    <<"W", <<"!", "w">>>>,
    <<"X", <<"!", "x">>>>,
    <<"Y", <<"!", "y">>>>,
    <<"Z", <<"!", "z">>>> >>

\* The arguments of strings.NewReplacer in the revision without upper-case
\* escaping.
PlainDirnamePairs == <<
    <<".", <<"-">>>>,
    <<Separator, <<"-">>>> >>

\* The table NewReplacer builds from its pairs: per old byte, the new
\* string of the first pair that names it.
ReplacerTable(pairs) ==
    [c \in {pairs[i][1] : i \in DOMAIN pairs} |->
        pairs[CHOOSE k \in DOMAIN pairs :
                 pairs[k][1] = c /\ \A j \in 1 .. k - 1 : pairs[j][1] # c][2]]

\* The mutant of dirnameReplacer: the pair for the separator is missing.
dirnameReplacerKeepSeparator ==
    [c \in DOMAIN ReplacerTable(DirnamePairs) \ {Separator} |-> ReplacerTable(DirnamePairs)[c]]

dirnameReplacer == ReplacerTable(DirnamePairs)
plainDirnameReplacer == ReplacerTable(PlainDirnamePairs)

\* The mutant of ReplaceByte: the replacement's first byte only, as a
\* byte-to-byte replacer would store it.
ReplaceByteTruncated(table, c) ==
    IF c \in DOMAIN table THEN <<table[c][1]>> ELSE <<c>>

\* The mutant of ReplaceByte: an upper-case letter is escaped and not
\* lowered.
ReplaceByteKeepCase(table, c) ==
    IF c \in DOMAIN table
      THEN (IF Len(table[c]) = 2 THEN <<table[c][1], c>> ELSE table[c])
      ELSE <<c>>

\* The mutant of ReplaceByte: an upper-case letter is lowered and not
\* escaped.
ReplaceByteFold(table, c) ==
    IF c \in DOMAIN table THEN <<table[c][Len(table[c])]>> ELSE <<c>>

\* What the replacer writes for input byte c.
ReplaceByte(table, c) ==
    IF c \in DOMAIN table THEN table[c] ELSE <<c>>

\* (*strings.Replacer).Replace(s)
RECURSIVE Replace(_, _)
Replace(table, s) ==
    IF s = <<>> THEN <<>>
    ELSE ReplaceByte(table, Head(s)) \o Replace(table, Tail(s))

\* The mutant of ReplacerOf: the pairs for the upper-case letters are
\* missing in both revisions.
ReplacerOfPlain(variant_) == plainDirnameReplacer

\* The replacer of a revision.
ReplacerOf(variant_) ==
    IF variant_ = "escaping" THEN dirnameReplacer ELSE plainDirnameReplacer

\* contextmanager.DirnameReplacer.Replace(input), as TestPathSanitization
\* calls it.
Sanitize ==
    /\ replaced.pc = "input"
    /\ replaced' = [replaced EXCEPT !.pc = "once",
                                    !.out = Replace(ReplacerOf(replaced.variant), replaced.s)]
    /\ UNCHANGED <<fsVars, cmdVars, hashVars, env, LLMCtxEnvRoot, init0, assigned, changes, ret>>

\* The output is sanitized a second time.
SanitizeAgain ==
    /\ replaced.pc = "once"
    /\ replaced' = [replaced EXCEPT !.pc = "twice",
                                    !.s = replaced.out,
                                    !.out = Replace(ReplacerOf(replaced.variant), replaced.out)]
    /\ UNCHANGED <<fsVars, cmdVars, hashVars, env, LLMCtxEnvRoot, init0, assigned, changes, ret>>

(***************************************************************************)
(* Package contextmanager: the root, GlobalDir and LocalDir.               *)
(***************************************************************************)
\* const EnvRoot
EnvRoot == "LLMCTXENV_ROOT"

\* os.Getenv(name) in environment e: "" when the variable is unset.
Getenv(e, name) == e[name]

DotLlmctxenv == <<".", "l", "l", "m", "c", "t", "x", "e", "n", "v">>
GlobalSeg    == <<"g", "l", "o", "b", "a", "l">>
LocalSeg     == <<"l", "o", "c", "a", "l">>

\* The mutant of InitRoot: the root under HOME wins over the override.
InitRootHomeFirst(e) ==
    OrLast(Getenv(e, EnvRoot), Join(<<Getenv(e, "HOME"), DotLlmctxenv>>))

\* var LLMCtxEnvRoot = cmp.Or(os.Getenv(EnvRoot),
\*                            filepath.Join(os.Getenv("HOME"), ".llmctxenv"))
InitRoot(e) ==
    Or(Getenv(e, EnvRoot), Join(<<Getenv(e, "HOME"), DotLlmctxenv>>))

\* os.UserHomeDir() in environment e: $HOME, an error when it is empty.
UserHomeDir(e) ==
    IF Getenv(e, "HOME") = <<>> THEN [err |-> "$HOME is not defined", path |-> <<>>]
    ELSE [err |-> Nil, path |-> Getenv(e, "HOME")]

\* The mutant of GlobalDirPath: the segments are glued, not joined.
GlobalDirPathRaw(root, provider) == JoinRaw(<<root, GlobalSeg, provider>>)

\* GlobalDir: filepath.Join(LLMCtxEnvRoot, "global", provider.String())
GlobalDirPath(root, provider) == Join(<<root, GlobalSeg, provider>>)

\* The mutant of LocalDirResult: a home directory that cannot be obtained
\* is taken to be "".
LocalDirResultNoHomeCheck(root, provider, wd, abs, home) ==
    IF wd.err # Nil THEN [path |-> <<>>, err |-> "get current directory"]
    ELSE
      LET path  == IF ~IsAbs(wd.path) /\ abs.err = Nil THEN abs.path ELSE wd.path
          trimmed == TrimPrefix(path, home.path \o <<Separator>>)
      IN [path |-> Join(<<root, LocalSeg, provider, Replace(dirnameReplacer, trimmed)>>),
          err |-> Nil]

\* LocalDir, given what os.Getwd (wd), filepath.Abs (abs) and
\* os.UserHomeDir (home) return: [path, err].
LocalDirResult(root, provider, wd, abs, home) ==
    IF wd.err # Nil THEN [path |-> <<>>, err |-> "get current directory"]
    ELSE
      LET path == IF ~IsAbs(wd.path) /\ abs.err = Nil THEN abs.path ELSE wd.path IN
      IF home.err # Nil THEN [path |-> <<>>, err |-> "get current user home directory"]
      ELSE
        LET trimmed   == TrimPrefix(path, home.path \o <<Separator>>)
            sanitized == Replace(dirnameReplacer, trimmed)
        IN [path |-> Join(<<root, LocalSeg, provider, sanitized>>), err |-> Nil]

\* The values the tests and the scenarios of the specification use.
HomeUser       == <<"/", "h", "o", "m", "e", "/", "u", "s", "e", "r">>
OtherHome      == <<"/", "r", "o", "o", "t">>
TestRoot       == <<"/", "t", "m", "p", "/", "t", "e", "s", "t", "-", "l", "l", "m", "c", "t", "x">>
CustomRoot     == <<"/", "o", "p", "t", "/", "l", "l", "m", "c", "t", "x", "/">>
ProviderClaudeCode == <<"c", "l", "a", "u", "d", "e">>
NoProvider         == <<>>

\* LLMCTXENV_ROOT: unset, the test root, a root written with a trailing
\* separator.  HOME: unset, /home/user, another home.
RootValues == {<<>>, TestRoot, CustomRoot}
HomeValues == {<<>>, HomeUser, OtherHome}
Providers  == {ProviderClaudeCode, NoProvider}

\* What os.Getwd may return: an error (the directory was removed), the home
\* directory, the home directory as $PWD spells it with a separator at its
\* end (os.Getwd returns a $PWD that names the current directory as it is
\* written), directories under it (one with a dot and upper-case letters),
\* a directory whose name only starts like the home directory, a directory
\* outside it, and a path that is not absolute.
GetwdOutcomes ==
    {[err |-> "ENOENT", path |-> <<>>]} \cup
    {[err |-> Nil, path |-> q] : q \in {
        HomeUser,
        HomeUser \o <<Separator>>,
        <<"/", "h", "o", "m", "e", "/", "u", "s", "e", "r", "/", "p", "r", "o", "j", "e", "c", "t", "s", "/", "m", "y", "a", "p", "p">>,
        <<"/", "h", "o", "m", "e", "/", "u", "s", "e", "r", "/", "M", "y", ".", "A", "p", "p">>,
        <<"/", "h", "o", "m", "e", "/", "u", "s", "e", "r", "n", "a", "m", "e">>,
        <<"/", "t", "m", "p", "/", "p", "r", "o", "j", "e", "c", "t">>,
        <<"p", "r", "o", "j">> }}

\* What filepath.Abs(path) may return for a path that is not absolute: the
\* error of its own os.Getwd, or the path joined to the directory that
\* os.Getwd then returns.
AbsOutcomes(path) ==
    {[err |-> "ENOENT", path |-> <<>>],
     [err |-> Nil, path |-> Join(<<HomeUser, path>>)]}

NoCall == [fn |-> "none", provider |-> <<>>, root |-> <<>>,
           wd |-> [err |-> Nil, path |-> <<>>], abs |-> [err |-> Nil, path |-> <<>>],
           home |-> [err |-> Nil, path |-> <<>>], path |-> <<>>, err |-> Nil]

\* os.Setenv(name, value); os.Unsetenv(name) is Setenv(name, "").
Setenv(name, value) ==
    /\ changes < MaxChanges
    /\ env[name] # value
    /\ env' = [env EXCEPT ![name] = value]
    /\ changes' = changes + 1
    /\ UNCHANGED <<fsVars, cmdVars, hashVars, LLMCtxEnvRoot, init0, assigned, ret, replaced>>

\* contextmanager.LLMCtxEnvRoot = value, as the tests do.
AssignRoot(value) ==
    /\ changes < MaxChanges
    /\ LLMCtxEnvRoot' = value
    /\ assigned' = TRUE
    /\ changes' = changes + 1
    /\ UNCHANGED <<fsVars, cmdVars, hashVars, env, init0, ret, replaced>>

\* The mutant of GlobalDir: the root is worked out from the environment at
\* each call.
GlobalDirFromEnv(provider) ==
    /\ ret' = [NoCall EXCEPT !.fn = "GlobalDir", !.provider = provider,
                             !.root = InitRoot(env),
                             !.path = GlobalDirPath(InitRoot(env), provider)]
    /\ UNCHANGED <<fsVars, cmdVars, hashVars, env, LLMCtxEnvRoot, init0, assigned, changes, replaced>>

\* GlobalDir(provider)
GlobalDir(provider) ==
    /\ ret' = [NoCall EXCEPT !.fn = "GlobalDir", !.provider = provider,
                             !.root = LLMCtxEnvRoot,
                             !.path = GlobalDirPath(LLMCtxEnvRoot, provider)]
    /\ UNCHANGED <<fsVars, cmdVars, hashVars, env, LLMCtxEnvRoot, init0, assigned, changes, replaced>>

\* LocalDir(provider, projectDir); projectDir is not used.
LocalDir(provider) ==
    /\ \E wd \in GetwdOutcomes :
       \E abs \in (IF wd.err = Nil /\ ~IsAbs(wd.path) THEN AbsOutcomes(wd.path)
                   ELSE {NoCall.abs}) :
          LET home == IF wd.err = Nil THEN UserHomeDir(env) ELSE NoCall.home
              r    == LocalDirResult(LLMCtxEnvRoot, provider, wd, abs, home)
          IN ret' = [fn |-> "LocalDir", provider |-> provider, root |-> LLMCtxEnvRoot,
                     wd |-> wd, abs |-> abs, home |-> home, path |-> r.path, err |-> r.err]
    /\ UNCHANGED <<fsVars, cmdVars, hashVars, env, LLMCtxEnvRoot, init0, assigned, changes, replaced>>

(***************************************************************************)
(* Package cmd: the list command, in the revision of cmd/list.go (flag     *)
(* --provider, the directory is SystemContextGlobalDir(provider)) and in   *)
(* the earlier revision (flag --cli, the directory is instructionsDir      *)
(* joined with the cli name).  Paths are sequences of names here, and a    *)
(* provider or cli name is a relative path, of one name as a rule.         *)
(***************************************************************************)
\* fileio.IsExist(path): false only when os.Stat fails with a not-exist error.
IsExist(f, path) == Stat(f, path).err # "ENOENT"

\* filepath.Join of clean paths: the elements one after the other.
JoinPath(elem) ==
    IF elem = <<>> THEN <<>> ELSE Head(elem) \o (IF Len(elem) > 1 THEN elem[2] ELSE <<>>)
                                            \o (IF Len(elem) > 2 THEN elem[3] ELSE <<>>)

\* contextmanager.SystemContextGlobalDir(provider)
SystemContextGlobalDir(root, provider) == JoinPath(<<root, <<"global">>, provider>>)

\* The order of strings that slices.Sort sorts by.
NameIndex(n) == CHOOSE i \in DOMAIN NameSeq : NameSeq[i] = n
Less(a, b) == NameIndex(a) < NameIndex(b)

RECURSIVE Insert(_, _)
Insert(sorted, n) ==
    IF sorted = <<>> THEN <<n>>
    ELSE IF Less(n, Head(sorted)) THEN <<n>> \o sorted
    ELSE <<Head(sorted)>> \o Insert(Tail(sorted), n)

\* slices.Sort(files)
RECURSIVE Sort(_)
Sort(files) ==
    IF files = <<>> THEN <<>> ELSE Insert(Sort(Front(files)), Last(files))

\* strings.Join(elems, sep), as the sequence of its pieces.
RECURSIVE JoinStrings(_, _)
JoinStrings(elems, sep) ==
    IF elems = <<>> THEN <<>>
    ELSE IF Len(elems) = 1 THEN elems
    ELSE <<Head(elems), sep>> \o JoinStrings(Tail(elems), sep)

\* The mutant of NonDirNames: no entry is skipped.
AllNames(f, dir, ents) == ents

\* for _, ent := range ents { if ent.IsDir() { continue }; files = append(files, ent.Name()) }
\* ent.IsDir() is the type of the entry itself: a symbolic link is not a directory.
NonDirNames(f, dir, ents) ==
    SelectSeq(ents, LAMBDA n : NodeAt(f, Append(dir, n)).kind # "dir")

\* The body of RunList, name being the flag, checked the directory it tests
\* and makes, listed the directory it reads.  [err, fs, out]: out is what
\* cmd.Printf wrote, piece by piece (nothing: <<>>).
RunListIn(f, mask, name, checked, listed) ==
    IF name = <<>> THEN [err |-> "flag must be not empty", fs |-> f, out |-> <<>>]
    ELSE IF ~IsExist(f, checked)
      THEN LET m == MkdirAll(f, checked, {"r", "w"}, mask) IN
           [err |-> m.err, fs |-> m.fs, out |-> <<>>]
    ELSE
      LET r == ReadDir(f, listed) IN
      IF r.err # Nil THEN [err |-> r.err, fs |-> f, out |-> <<>>]
      ELSE [err |-> Nil, fs |-> f,
            out |-> <<"files:\n">> \o
                    JoinStrings(Sort(NonDirNames(f, Stat(f, listed).path, r.entries)), "\n")]

\* The root of the contexts, and the package variable instructionsDir of
\* the earlier revision.
ListRoot == <<"r">>
instructionsDir == <<"r", "global">>

\* RunList of cmd/list.go, run with --provider provider.
RunList(provider) ==
    /\ list.rev = "provider"
    /\ list.runs < MaxRuns
    /\ LET globalDir == SystemContextGlobalDir(ListRoot, provider)
           r == RunListIn(fs, umask, provider, globalDir, globalDir)
       IN /\ fs' = r.fs
          /\ fs0' = fs
          /\ list' = [rev |-> list.rev, runs |-> list.runs + 1, name |-> provider,
                      dir |-> globalDir, err |-> r.err, out |-> r.out]
    /\ UNCHANGED <<umask, stack, result, failed, call, created, closes, branch, round,
                   hashVars, ctxVars>>

\* RunList of the earlier revision, run with --cli cliname.
RunListCli(cliname) ==
    /\ list.rev = "cli"
    /\ list.runs < MaxRuns
    /\ LET dir == JoinPath(<<instructionsDir, cliname>>)
           r == RunListIn(fs, umask, cliname, instructionsDir, dir)
       IN /\ fs' = r.fs
          /\ fs0' = fs
          /\ list' = [rev |-> list.rev, runs |-> list.runs + 1, name |-> cliname,
                      dir |-> dir, err |-> r.err, out |-> r.out]
    /\ UNCHANGED <<umask, stack, result, failed, call, created, closes, branch, round,
                   hashVars, ctxVars>>

(***************************************************************************)
(* Idle values of the variables a specification does not use.              *)
(***************************************************************************)
NoFailure == [err |-> Nil, fs |-> <<>>]

CtxIdle ==
    /\ env = <<>>
    /\ LLMCtxEnvRoot = <<>>
    /\ init0 = <<>>
    /\ assigned = FALSE
    /\ changes = 0
    /\ ret = <<>>
    /\ replaced = <<>>

CmdIdle == list = <<>>

HashIdle ==
    /\ variant = "none"
    /\ hp = <<>>
    /\ pool = <<>>
    /\ made = <<>>
    /\ hashMem = <<>>
    /\ digestMem = <<>>
    /\ hexMem = <<>>

Umasks == {{}, {"gw"}}

(***************************************************************************)
(* SpecCopyFile: NCopiers goroutines, each calling CopyFile once, over a   *)
(* file system with readable, unreadable and missing sources and with      *)
(* present, absent and uncreatable destinations.                           *)
(***************************************************************************)
CopyFileWorld ==
    (<<"s">>       :> Dir({"r", "w"}))                 @@
    (<<"s", "a">>  :> File(<<1, 2>>, {"r", "w"}))      @@
    (<<"s", "d">>  :> File(<<4>>, {}))                 @@
    (<<"d">>       :> Dir({"r", "w"}))                 @@
    (<<"d", "a">>  :> File(<<9, 9, 9>>, {"r", "w"}))   @@
    (<<"ro">>      :> Dir({"r"}))

\* A readable file, a missing file, an unreadable file.
CopyFileSources == {<<"s", "a">>, <<"s", "c">>, <<"s", "d">>}
\* A file that is there, an absent path, an absent path in a read-only directory.
CopyFileDests   == {<<"d", "a">>, <<"d", "b">>, <<"ro", "a">>}
CopyFilePerms   == {{"r", "w"}, {"r", "w", "gw"}}

Copiers == 1 .. NCopiers

InitCopyFile ==
    /\ fs = CopyFileWorld
    /\ fs0 = fs
    /\ umask = {"gw"}
    /\ call \in [Copiers -> {CopyFileFrame(d, s, p) :
                               d \in CopyFileDests, s \in CopyFileSources,
                               p \in CopyFilePerms}]
    /\ stack = [g \in Copiers |-> <<call[g]>>]
    /\ result = [g \in Copiers |-> "running"]
    /\ failed = [g \in Copiers |-> NoFailure]
    /\ created = [g \in Copiers |-> {}]
    /\ closes = [g \in Copiers |-> <<>>]
    /\ branch = [g \in Copiers |-> {}]
    /\ round = [g \in Copiers |-> 1]
    /\ HashIdle
    /\ CtxIdle
    /\ CmdIdle

NextCopyFile ==
    \E g \in Copiers :
       \/ CopyFileOpenSrc(g)
       \/ CopyFileOpenDst(g)
       \/ CopyFileCopy(g)
       \/ CopyFileClose(g)

SpecCopyFile == InitCopyFile /\ [][NextCopyFile]_vars

(***************************************************************************)
(* Claims about CopyFile (SpecCopyFile)                                    *)
(***************************************************************************)
Done(g) == result[g] # "running"

\* The calls whose destination was there when the calls started.
DestExisted(g) == call[g].fn = "CopyFile" /\ Lstat(fs0, call[g].dest).err = Nil

\* C1: CopyFile(dest, source, perm) with dest already there returns an error,
\* whatever source and perm are, and the node at dest (its bytes and its
\* mode) stays what it was before the call, at every moment of the call.
C1_ExistingDestKept ==
    \A g \in DOMAIN call :
       DestExisted(g) =>
          /\ Done(g) => result[g] # Nil
          /\ LET at == Lstat(fs0, call[g].dest).path IN NodeAt(fs, at) = NodeAt(fs0, at)
          /\ LET st == Stat(fs0, call[g].dest) IN
             st.err = Nil => NodeAt(fs, st.path) = NodeAt(fs0, st.path)

\* C1 witness: a call whose source opened, on a destination file that was
\* there, has returned EEXIST.
C1_Witness ==
    \E g \in DOMAIN call :
       /\ DestExisted(g)
       /\ NodeAt(fs0, call[g].dest).kind = "file"
       /\ Open(fs0, call[g].source).err = Nil
       /\ result[g] = "EEXIST"

\* The calls aimed at destination d, and those of them that opened their source
\* (a call whose source does not open returns before it tries the create).
Rivals(d)  == {g \in DOMAIN call : call[g].fn = "CopyFile" /\ call[g].dest = d}
Opened(d)  == {g \in Rivals(d) : Open(fs0, call[g].source).err = Nil}
Winners(d) == {g \in Rivals(d) : d \in created[g]}

OpenHandles(g) ==
    IF stack[g] # <<>> /\ Top(g).fn = "CopyFile" /\ Top(g).pc \in {"copy", "close"}
      THEN {Top(g).dst} ELSE {}

Closed(g) == {closes[g][i].dst : i \in DOMAIN closes[g]}

\* C23: CopyFile returns the error of dst.Close() exactly when io.Copy
\* succeeded and the close failed; when io.Copy failed it returns the copy
\* error, whatever the close returned; and in both cases the destination
\* handle has been closed when CopyFile returns.
C23_CloseErrorSurfaced ==
    \A g \in DOMAIN closes :
       /\ \A i \in DOMAIN closes[g] :
             LET c == closes[g][i] IN
             /\ c.copyErr # Nil => c.ret = c.copyErr
             /\ c.copyErr = Nil => c.ret = c.closeErr
             /\ c.ret \in CloseErrors \ {Nil} <=> (c.copyErr = Nil /\ c.closeErr # Nil)
       /\ created[g] = Closed(g) \cup OpenHandles(g)
       /\ Closed(g) \cap OpenHandles(g) = {}
       /\ (call[g].fn = "CopyFile" /\ Done(g) /\ closes[g] # <<>>)
             => result[g] = closes[g][Len(closes[g])].ret

\* C23 witness: a CopyFile whose copy failed and whose close failed too has
\* returned the copy error.
C23_Witness ==
    \E g \in DOMAIN closes :
       /\ call[g].fn = "CopyFile" /\ Done(g) /\ closes[g] # <<>>
       /\ closes[g][1].copyErr = "EIO" /\ closes[g][1].closeErr = "ENOSPC"
       /\ result[g] = "EIO"

\* C28: when CopyFile cannot open the source (it is missing or unreadable),
\* it returns the open error at once, and that step creates no destination
\* file and leaves the file system as it was.
C28_OpenFailureTouchesNothing ==
    [][\A g \in DOMAIN stack :
          (/\ At(g, "CopyFile", "open_src")
           /\ Open(fs, Top(g).source).err # Nil
           /\ stack'[g] # stack[g]) =>
             /\ fs' = fs
             /\ created'[g] = created[g]
             /\ Len(stack'[g]) = Len(stack[g]) - 1
             /\ Len(stack[g]) = 1 => result'[g] = Open(fs, Top(g).source).err]_vars

\* C28 witness: one CopyFile of a missing source and one of an unreadable
\* source have returned; neither destination is there.
C28_Witness ==
    \E g, h \in DOMAIN call :
       /\ call[g].fn = "CopyFile" /\ call[h].fn = "CopyFile"
       /\ result[g] = "ENOENT" /\ Open(fs0, call[g].source).err = "ENOENT"
       /\ result[h] = "EACCES" /\ Open(fs0, call[h].source).err = "EACCES"
       /\ NodeAt(fs0, call[g].dest).kind = "none"
       /\ NodeAt(fs0, call[h].dest).kind = "none"
       /\ fs = fs0

(***************************************************************************)
(* SpecCopyDir: one goroutine calling CopyDir(srcDir, destDir) once.       *)
(* The source tree /s holds up to two entries, each absent, a file, a      *)
(* symbolic link or a directory of up to two files; the destination is     *)
(* absent, present with a file in it, under a read-only directory, or      *)
(* inside the source.                                                      *)
(***************************************************************************)
Empty == [x \in {} |-> NoNode]

\* (bytes, mode) of the files an entry of /s can be: a plain file, a
\* group-writable file, a file without read permission.
FileKinds  == {<< <<1>>, {"r", "w"} >>, << <<2, 3>>, {"r", "w", "gw"} >>, << <<1>>, {} >>}
\* ... and of the files in a subdirectory: a plain file, a read-only file.
ChildKinds == {<< <<5>>, {"r", "w"} >>, << <<6>>, {"r"} >>}
\* What a link points to: its own parent, its sibling b, a directory with a
\* file in it, a file, nothing.
LinkTargets == {<<"s">>, <<"s", "b">>, <<"t">>, <<"t", "a">>, <<"c">>}

ChildOptions(p, m) ==
    {Empty} \cup {Append(p, m) :> File(k[1], k[2]) : k \in ChildKinds}

EntryOptions(p) ==
    {Empty}
      \cup {p :> File(k[1], k[2]) : k \in FileKinds}
      \cup {p :> Link(t) : t \in LinkTargets}
      \cup {p :> Dir({})}
      \cup {(p :> Dir({"r", "w"})) @@ ca @@ cb :
              ca \in ChildOptions(p, "a"), cb \in ChildOptions(p, "b")}

CopyDirBase ==
    (<<"s">>      :> Dir({"r", "w"}))          @@
    (<<"t">>      :> Dir({"r", "w"}))          @@
    (<<"t", "a">> :> File(<<7>>, {"r", "w"}))  @@
    (<<"ro">>     :> Dir({"r"}))               @@
    (<<"u">>      :> Dir({}))

\* A destination /d that is already there, with a file a in it.
DestThere ==
    (<<"d">>      :> Dir({"r", "w"}))          @@
    (<<"d", "a">> :> File(<<9, 9, 9>>, {"r", "w"}))

\* (what is at the destination beforehand, destDir)
CopyDirDests ==
    {<<Empty, <<"d">> >>, <<Empty, <<"d", "c">> >>, <<Empty, <<"ro", "d">> >>,
     <<Empty, <<"s", "c">> >>, <<Empty, <<"c", "d">> >>, <<DestThere, <<"d">> >>}

Walker == "walker"

InitCopyDir ==
    /\ umask \in Umasks
    /\ \E ea \in EntryOptions(<<"s", "a">>), eb \in EntryOptions(<<"s", "b">>),
          dd \in CopyDirDests, srcDir \in {<<"s">>, <<"c">>, <<"u">>} :
          /\ srcDir # <<"s">> => ea = Empty /\ eb = Empty /\ dd[1] = Empty
          /\ fs = CopyDirBase @@ ea @@ eb @@ dd[1]
          /\ call = [g \in {Walker} |-> CopyDirFrame(srcDir, dd[2])]
    /\ fs0 = fs
    /\ stack = [g \in {Walker} |-> <<call[g]>>]
    /\ result = [g \in {Walker} |-> "running"]
    /\ failed = [g \in {Walker} |-> NoFailure]
    /\ created = [g \in {Walker} |-> {}]
    /\ closes = [g \in {Walker} |-> <<>>]
    /\ branch = [g \in {Walker} |-> {}]
    /\ round = [g \in {Walker} |-> 1]
    /\ HashIdle
    /\ CtxIdle
    /\ CmdIdle

NextCopyDir ==
    \/ CopyDirMkdirAll(Walker)
    \/ CopyDirReadDir(Walker)
    \/ CopyDirStat(Walker)
    \/ CopyDirCaseDir(Walker)
    \/ CopyDirCaseDefault(Walker)
    \/ CopyDirCalled(Walker)
    \/ CopyFileOpenSrc(Walker)
    \/ CopyFileOpenDst(Walker)
    \/ CopyFileCopy(Walker)
    \/ CopyFileClose(Walker)

SpecCopyDir == InitCopyDir /\ [][NextCopyDir]_vars

\* The source trees and destinations on which the recursion of CopyDir could
\* go on: a link to the source itself or to another directory, a
\* subdirectory, a destination inside the source.
InitCopyDirLoops ==
    /\ InitCopyDir
    /\ umask = {"gw"}
    /\ call[Walker].srcDir = <<"s">>
    /\ call[Walker].destDir \in {<<"d">>, <<"s", "c">>}
    /\ NodeAt(fs, <<"d">>).kind = "none"
    /\ NodeAt(fs, <<"s", "a">>).kind \in {"link", "dir"}
    /\ NodeAt(fs, <<"s", "b">>).kind \in {"none", "link"}

\* The goroutine that called CopyDir keeps running: as long as the call has
\* not returned it takes its next step.  This is weak fairness of
\* NextCopyDir, which is enabled exactly while the call has not returned.
CopyDirKeepsRunning ==
    []<>(result[Walker] # "running") \/ []<><<NextCopyDir>>_vars

SpecCopyDirFair == InitCopyDirLoops /\ [][NextCopyDir]_vars /\ CopyDirKeepsRunning

(***************************************************************************)
(* Claims about CopyDir (SpecCopyDir)                                      *)
(***************************************************************************)
IsPrefix(a, b) == Len(a) <= Len(b) /\ SubSeq(b, 1, Len(a)) = a

\* The relative paths under directory root, as a walk that does not follow
\* symbolic links sees them (filepath.Walk in the tests).
RelPaths(f, root) ==
    {SubSeq(q, Len(root) + 1, Len(q)) : q \in {x \in DOMAIN f : IsPrefix(root, x) /\ x # root}}

\* C2: after a successful CopyDir(src, dst) into a destination that was not
\* there before, the relative paths under dst are those under src, and every
\* file under dst has the bytes and the permission bits of its counterpart
\* under src; an empty src gives an empty dst that is there.
C2_CopyFidelity ==
    \A g \in DOMAIN call :
       (/\ call[g].fn = "CopyDir"
        /\ result[g] = Nil
        /\ Lstat(fs0, call[g].destDir).err = "ENOENT")
       => LET src == call[g].srcDir
              dst == call[g].destDir
          IN
          /\ NodeAt(fs, dst).kind = "dir"
          /\ RelPaths(fs, dst) = RelPaths(fs, src)
          /\ \A rel \in RelPaths(fs, dst) :
                NodeAt(fs, dst \o rel).kind = "file" =>
                   LET from == Stat(fs, src \o rel) IN
                   /\ from.err = Nil
                   /\ from.node.kind = "file"
                   /\ NodeAt(fs, dst \o rel).data = from.node.data
                   /\ NodeAt(fs, dst \o rel).perm = from.node.perm

\* C3: CopyDir stops at the first error of any step and returns it: once a
\* step has failed the file system never changes again (no later entry is
\* copied, nothing made so far is rolled back), the call returns that very
\* error, and whatever was there or was created is still there.
C3_FirstErrorStops ==
    \A g \in DOMAIN call :
       call[g].fn = "CopyDir" =>
          /\ failed[g].err # Nil => fs = failed[g].fs
          /\ Done(g) => result[g] = failed[g].err
          /\ \A q \in created[g] : NodeAt(fs, q).kind = "file"
          /\ \A q \in DOMAIN fs0 : NodeAt(fs, q).kind = fs0[q].kind

\* C3 witness: CopyDir returned an error after it had copied a file, and a
\* readable file of the source that comes later in the listing was not copied.
C3_Witness ==
    \E g \in DOMAIN call :
       /\ call[g].fn = "CopyDir"
       /\ Done(g) /\ result[g] # Nil
       /\ created[g] # {}
       /\ \A q \in created[g] : NodeAt(fs, q).data # <<>>
       /\ NodeAt(fs0, Append(call[g].srcDir, "b")).kind = "file"
       /\ "r" \in NodeAt(fs0, Append(call[g].srcDir, "b")).perm
       /\ NodeAt(fs, Append(call[g].destDir, "b")).kind = "none"

C25_LinksTakeDefault ==
    \A g \in DOMAIN branch :
       \A b \in branch[g] :
          LET entry == Lstat(fs, b[1]).node IN
          /\ entry.kind = "link" => b[2] = "default"
          /\ b[2] = "ModeDir" => entry.kind = "dir"

\* The calls whose srcDir was missing or unreadable when they started.
SrcUnlistable(g) == call[g].fn = "CopyDir" /\ ReadDir(fs0, call[g].srcDir).err # Nil

\* C26, as claimed: destDir is there whenever srcDir is about to be listed,
\* and a CopyDir on a srcDir that is missing or cannot be read returns the
\* error of the listing, with destDir made and left in place.
C26_ListingErrorAfterMkdir ==
    \A g \in DOMAIN call :
       /\ At(g, "CopyDir", "readdir") => Stat(fs, Top(g).destDir).node.kind = "dir"
       /\ (SrcUnlistable(g) /\ Done(g)) =>
             /\ result[g] = ReadDir(fs0, call[g].srcDir).err
             /\ Stat(fs, call[g].destDir).node.kind = "dir"

\* C26, amended: destDir is there whenever srcDir is about to be listed;
\* when destDir could be made and srcDir is missing or unreadable once it
\* is made, CopyDir returns the error of the listing and destDir, made, is
\* left in place; when destDir could not be made CopyDir returns that error.
C26_DestMadeBeforeListing ==
    \A g \in DOMAIN call :
       /\ At(g, "CopyDir", "readdir") => Stat(fs, Top(g).destDir).node.kind = "dir"
       /\ (call[g].fn = "CopyDir" /\ Done(g)) =>
             LET m == MkdirAll(fs0, call[g].destDir, {"r", "w", "gr"}, umask)
                 r == ReadDir(m.fs, call[g].srcDir)
             IN
             /\ m.err # Nil => result[g] = m.err
             /\ (m.err = Nil /\ r.err # Nil) =>
                   /\ result[g] = r.err
                   /\ Stat(fs, call[g].destDir).node.kind = "dir"
                   /\ fs = m.fs

\* C26 witness: CopyDir of a missing srcDir into a destDir that was not
\* there has returned ENOENT, and destDir is there.
C26_Witness ==
    \E g \in DOMAIN call :
       /\ SrcUnlistable(g) /\ Done(g)
       /\ NodeAt(fs0, call[g].srcDir).kind = "none"
       /\ NodeAt(fs0, call[g].destDir).kind = "none"
       /\ result[g] = "ENOENT"
       /\ NodeAt(fs, call[g].destDir).kind = "dir"

(***************************************************************************)
(* SpecCopyDirTwice: CopyDir(srcDir, destDir) is called, and called again  *)
(* with the same arguments each time it has returned nil.                  *)
(***************************************************************************)
InitCopyDirTwice ==
    /\ InitCopyDir
    /\ call[Walker].srcDir = <<"s">>
    /\ call[Walker].destDir \in {<<"d">>, <<"d", "c">>}

NextCopyDirTwice == NextCopyDir \/ CopyDirAgain(Walker)

SpecCopyDirTwice == InitCopyDirTwice /\ [][NextCopyDirTwice]_vars

\* The source tree of g's call holds directories only.
OnlyDirs(g) ==
    \A q \in DOMAIN fs0 :
       (IsPrefix(call[g].srcDir, q) /\ q # call[g].srcDir) => fs0[q].kind = "dir"

\* C27: a CopyDir(src, dst) that follows a successful one returns an error
\* at the first entry it reaches that is not a directory, and changes the
\* bytes of no file in dst; when the source tree holds directories only,
\* it returns nil and leaves dst as it was.
C27_SecondCopyFails ==
    \A g \in DOMAIN call :
       (call[g].fn = "CopyDir" /\ round[g] > 1 /\ Done(g)) =>
          /\ \A q \in DOMAIN fs0 : fs0[q].kind = "file" => NodeAt(fs, q) = fs0[q]
          /\ created[g] = {}
          /\ IF OnlyDirs(g)
               THEN result[g] = Nil /\ fs = fs0
               ELSE /\ result[g] = "EEXIST"
                    /\ Cardinality({b \in branch[g] : b[2] = "default"}) = 1

(***************************************************************************)
(* SpecHash: the goroutines call HashFile, MaxCalls times in all, in the  *)
(* pooled revision; SpecHashUnsafe: the same in the unsafe.String          *)
(* revision; SpecHashAny: in either.  The file system is not written.      *)
(***************************************************************************)
FsIdle ==
    /\ fs = HashWorld
    /\ fs0 = <<>>
    /\ umask = {"gw"}
    /\ stack = <<>>
    /\ result = <<>>
    /\ failed = <<>>
    /\ call = <<>>
    /\ created = <<>>
    /\ closes = <<>>
    /\ branch = <<>>
    /\ round = <<>>

InitPools ==
    /\ hp = [g \in Hashers |-> [Hp0(<<>>) EXCEPT !.pc = "idle"]]
    /\ pool = [n \in PoolNames |-> [o \in Objects |-> 0]]
    /\ made = [n \in PoolNames |-> 0]
    /\ hashMem = [o \in Objects |-> <<>>]
    /\ digestMem = [o \in Objects |-> <<>>]
    /\ hexMem = [o \in Objects |-> <<>>]

InitHash       == FsIdle /\ CtxIdle /\ CmdIdle /\ variant = "pooled" /\ InitPools
InitHashUnsafe == FsIdle /\ CtxIdle /\ CmdIdle /\ variant = "unsafe" /\ InitPools
InitHashAny    == FsIdle /\ CtxIdle /\ CmdIdle /\ variant \in {"pooled", "unsafe"} /\ InitPools

NextHash ==
    \E g \in Hashers :
       \/ HashFileOpen(g)
       \/ HashFileGetHash(g)
       \/ HashFileCopyBuffer(g)
       \/ HashFilePutCopyBuf(g)
       \/ HashFileSum(g)
       \/ HashFileEncode(g)
       \/ HashFilePutHex(g)
       \/ HashFilePutDigest(g)
       \/ HashFileReturn(g)

NextHashUnsafe ==
    \E g \in Hashers :
       \/ HashFileOpen(g)
       \/ HashFileGetHash(g)
       \/ UnsafeHashFileCopy(g)
       \/ UnsafeHashFileEncode(g)
       \/ UnsafeHashFilePutBytes(g)
       \/ HashFileReturn(g)

NextHashAny ==
    \E g \in Hashers :
       \/ HashFileOpen(g)
       \/ HashFileGetHash(g)
       \/ HashFileCopyBuffer(g)
       \/ HashFilePutCopyBuf(g)
       \/ HashFileSum(g)
       \/ HashFileEncode(g)
       \/ HashFilePutHex(g)
       \/ HashFilePutDigest(g)
       \/ UnsafeHashFileCopy(g)
       \/ UnsafeHashFileEncode(g)
       \/ UnsafeHashFilePutBytes(g)
       \/ HashFileReturn(g)

SpecHash       == InitHash /\ [][NextHash]_vars
SpecHashUnsafe == InitHashUnsafe /\ [][NextHashUnsafe]_vars
SpecHashAny    == InitHashAny /\ [][NextHashAny]_vars

(***************************************************************************)
(* Claims about HashFile.                                                  *)
(***************************************************************************)
\* g's HashFile call has returned.
Returned(g) == hp[g].pc = "done"

LowerHex == {"0", "1", "2", "3", "4", "5", "6", "7",
             "8", "9", "a", "b", "c", "d", "e", "f"}

\* s is a FileDigest: 64 lowercase hexadecimal characters.
IsFileDigest(s) == Len(s) = 64 /\ \A i \in 1 .. Len(s) : s[i] \in LowerHex

\* C5: a HashFile call that has returned gave either a 64-character
\* lowercase hexadecimal digest with a nil error, or the empty string with a
\* non-nil error, wherever it failed.
C5_DigestXorError ==
    \A g \in Hashers :
       Returned(g) =>
          \/ hp[g].err = Nil /\ IsFileDigest(hp[g].returned)
          \/ hp[g].err # Nil /\ hp[g].returned = <<>>

\* One call has returned a digest, another has failed while streaming a
\* directory.
C5_Witness ==
    \E g1, g2 \in Hashers :
       /\ Returned(g1) /\ hp[g1].err = Nil /\ Len(hp[g1].returned) = 64
       /\ Returned(g2) /\ hp[g2].err = "EISDIR" /\ hp[g2].returned = <<>>

\* C6: the string a HashFile call returned keeps the value it had when it
\* was returned, whatever later and concurrent calls do with the pooled
\* buffers.
C6_ReturnedStringStable ==
    \A g \in Hashers :
       (Returned(g) /\ hp[g].err = Nil) => StrVal(g) = hp[g].returned

\* The goroutines that hold object o of pool name.
Holders(name, o) ==
    {g \in Hashers :
        \/ name = "hash" /\ hp[g].h = o
        \/ name = "copyBuf" /\ hp[g].buf = o
        \/ name = "digest" /\ hp[g].digest = o
        \/ name = "hex" /\ hp[g].hexbuf = o}

\* C7: a pooled object is held by at most one caller at a time, and is not
\* in the pool while a caller holds it.
C7_ExclusiveLease ==
    \A name \in PoolNames : \A o \in Objects :
       /\ Cardinality(Holders(name, o)) <= 1
       /\ Holders(name, o) # {} => pool[name][o] = 0

\* Two calls hold a hash state and a digest buffer each at the same time,
\* and one of them a hex buffer as well.
C7_Witness ==
    \E g1, g2 \in Hashers :
       /\ g1 # g2
       /\ hp[g1].h # 0 /\ hp[g1].digest # 0 /\ hp[g1].hexbuf # 0
       /\ hp[g2].h # 0 /\ hp[g2].digest # 0

\* No call is in progress.
Quiet == \A g \in Hashers : hp[g].pc \in {"idle", "done"}

\* C8: a call that has returned, with or without an error, has put back
\* every object it got, each once; when no call is in progress every object
\* ever made rests in its pool, once.
C8_EveryLeaseReturned ==
    /\ \A g \in Hashers :
          Returned(g) =>
             /\ hp[g].gets = hp[g].puts
             /\ hp[g].h = 0 /\ hp[g].buf = 0 /\ hp[g].digest = 0 /\ hp[g].hexbuf = 0
    /\ \A name \in PoolNames : \A o \in Objects :
          /\ pool[name][o] <= 1
          /\ (Quiet /\ o <= made[name]) => pool[name][o] = 1

\* One call has failed while streaming after it had got objects, another
\* has succeeded, and nothing is in progress.
C8_Witness ==
    \E g1, g2 \in Hashers :
       /\ Quiet
       /\ Returned(g1) /\ hp[g1].err = "EISDIR" /\ hp[g1].gets > 0
       /\ Returned(g2) /\ hp[g2].err = Nil /\ hp[g2].gets > 1

\* The bytes of the file that path names, links followed.
Content(path) == NodeAt(fs, Stat(fs, path).path).data

\* The hexadecimal SHA-256 of bytes, computed with a hash state and buffers
\* of its own.
FreshDigest(bytes) == Encode(NulChars(2 * Size), Sum256(bytes))

\* C9: the digest a successful call returns is the digest of the file's
\* bytes and of nothing else: not of its name, its mode, the earlier use
\* of the pooled objects or what other callers do.
C9_DigestOfContentOnly ==
    /\ \A g \in Hashers :
          (Returned(g) /\ hp[g].err = Nil) => hp[g].returned = FreshDigest(Content(hp[g].path))
    /\ \A g1, g2 \in Hashers :
          (/\ Returned(g1) /\ hp[g1].err = Nil
           /\ Returned(g2) /\ hp[g2].err = Nil
           /\ Content(hp[g1].path) = Content(hp[g2].path))
          => hp[g1].returned = hp[g2].returned

\* Two calls on files of the same bytes, of different names and modes, have
\* returned, the second on the hash state and buffers the first had used.
C9_Witness ==
    \E g1, g2 \in Hashers :
       /\ Returned(g1) /\ hp[g1].err = Nil
       /\ Returned(g2) /\ hp[g2].err = Nil
       /\ hp[g1].path # hp[g2].path
       /\ NodeAt(fs, hp[g1].path).kind = "file" /\ NodeAt(fs, hp[g2].path).kind = "file"
       /\ NodeAt(fs, hp[g1].path).perm # NodeAt(fs, hp[g2].path).perm
       /\ Content(hp[g1].path) = Content(hp[g2].path)
       /\ \A name \in PoolNames : made[name] = 1

\* path names a symbolic link whose target does not exist.
BrokenLink(path) ==
    /\ Lstat(fs, path).err = Nil
    /\ Lstat(fs, path).node.kind = "link"
    /\ Stat(fs, path).err # Nil

\* path names a directory.
IsDirectory(path) == Stat(fs, path).err = Nil /\ Stat(fs, path).node.kind = "dir"

\* C10: a call on a symbolic link returns what a call on the link's target
\* returns; a call on a broken link, on a directory or on the empty path
\* returns an error and the empty string.
C10_LinkFollowed ==
    /\ \A g1, g2 \in Hashers :
          (/\ Returned(g1) /\ Returned(g2)
           /\ Lstat(fs, hp[g1].path).err = Nil
           /\ Lstat(fs, hp[g1].path).node.kind = "link"
           /\ Lstat(fs, hp[g1].path).node.target = hp[g2].path)
          => /\ hp[g1].returned = hp[g2].returned
             /\ (hp[g1].err = Nil) <=> (hp[g2].err = Nil)
    /\ \A g \in Hashers :
          (/\ Returned(g)
           /\ \/ BrokenLink(hp[g].path)
              \/ IsDirectory(hp[g].path)
              \/ hp[g].path = <<>>)
          => hp[g].err # Nil /\ hp[g].returned = <<>>

\* A call on a link and a call on the file it points to have both returned
\* a digest.
C10_Witness ==
    \E g1, g2 \in Hashers :
       /\ Returned(g1) /\ Returned(g2)
       /\ Lstat(fs, hp[g1].path).err = Nil
       /\ Lstat(fs, hp[g1].path).node.kind = "link"
       /\ Lstat(fs, hp[g1].path).node.target = hp[g2].path
       /\ hp[g1].err = Nil /\ hp[g2].err = Nil
       /\ IsFileDigest(hp[g1].returned)

(***************************************************************************)
(* SpecSanitize: dirnameReplacer.Replace on every string of at most MaxLen *)
(* characters over Chars, in both revisions of the replacer.               *)
(***************************************************************************)
\* A separator, a dot, upper-case letters, lower-case letters (one of them
\* the image of an upper-case one), a digit, and the characters the tests
\* expect unchanged; "!" is the escape character itself.
Chars == {"/", ".", "A", "Z", "a", "m", "1", "_", "-", "!"}

Strings == UNION {[1 .. n -> Chars] : n \in 0 .. MaxLen}

InitSanitize ==
    /\ FsIdle /\ HashIdle /\ CmdIdle
    /\ env = <<>> /\ LLMCtxEnvRoot = <<>> /\ init0 = <<>> /\ assigned = FALSE /\ changes = 0 /\ ret = <<>>
    /\ \E v \in {"escaping", "plain"} : \E s \in Strings :
          replaced = [pc |-> "input", variant |-> v, first |-> s, s |-> s, out |-> <<>>]

NextSanitize == Sanitize \/ SanitizeAgain

SpecSanitize == InitSanitize /\ [][NextSanitize]_vars

(***************************************************************************)
(* SpecContext: the package is initialised in some environment; then the   *)
(* environment changes, the tests assign the root, and GlobalDir and       *)
(* LocalDir are called, in any order.                                      *)
(***************************************************************************)
InitContext ==
    /\ FsIdle /\ HashIdle /\ CmdIdle
    /\ replaced = <<>>
    /\ env \in [{EnvRoot, "HOME"} -> RootValues \cup HomeValues]
    /\ env[EnvRoot] \in RootValues /\ env["HOME"] \in HomeValues
    /\ LLMCtxEnvRoot = InitRoot(env)
    /\ init0 = [env |-> env, root |-> LLMCtxEnvRoot]
    /\ assigned = FALSE
    /\ changes = 0
    /\ ret = NoCall

NextContext ==
    \/ \E v \in RootValues : Setenv(EnvRoot, v)
    \/ \E v \in HomeValues : Setenv("HOME", v)
    \/ \E v \in RootValues \cup {Join(<<Getenv(env, "HOME"), DotLlmctxenv>>)} : AssignRoot(v)
    \/ \E p \in Providers : GlobalDir(p)
    \/ \E p \in Providers : LocalDir(p)

SpecContext == InitContext /\ [][NextContext]_vars

(***************************************************************************)
(* Claims about LocalDir.                                                  *)
(***************************************************************************)
\* The last call was LocalDir, and os.Getwd and os.UserHomeDir succeeded.
LocalDirCalled ==
    ret.fn = "LocalDir" /\ ret.wd.err = Nil /\ ret.home.err = Nil

\* C11: LocalDir with home /home/user, working directory /home/user, root
\* /tmp/test-llmctx and provider claude returns
\* /tmp/test-llmctx/local/claude/ : the sanitized suffix is empty.
C11_HomeGivesEmptySuffix ==
    (/\ LocalDirCalled
     /\ ret.wd.path = HomeUser /\ ret.home.path = HomeUser
     /\ ret.root = TestRoot /\ ret.provider = ProviderClaudeCode)
    => /\ ret.err = Nil
       /\ ret.path = <<"/", "t", "m", "p", "/", "t", "e", "s", "t", "-", "l", "l", "m", "c", "t", "x", "/", "l", "o", "c", "a", "l", "/", "c", "l", "a", "u", "d", "e", "/">>

UpperCase == <<"A", "B", "C", "D", "E", "F", "G", "H", "I", "J", "K", "L", "M", "N", "O", "P", "Q", "R", "S", "T", "U", "V", "W", "X", "Y", "Z">>
LowerCase == <<"a", "b", "c", "d", "e", "f", "g", "h", "i", "j", "k", "l", "m", "n", "o", "p", "q", "r", "s", "t", "u", "v", "w", "x", "y", "z">>

\* What the sanitizer is to make of character c: "-" of a separator or a
\* dot, "!" and the lower-case letter of an upper-case letter, c otherwise.
Sanitized1(c) ==
    IF c = "/" \/ c = "." THEN <<"-">>
    ELSE IF \E i \in 1 .. 26 : UpperCase[i] = c
      THEN <<"!", LowerCase[CHOOSE i \in 1 .. 26 : UpperCase[i] = c]>>
    ELSE <<c>>

RECURSIVE SanitizedFrom(_, _)
SanitizedFrom(s, i) ==
    IF i > Len(s) THEN <<>> ELSE Sanitized1(s[i]) \o SanitizedFrom(s, i + 1)

\* The sanitized form of s.
Sanitized(s) == SanitizedFrom(s, 1)

\* The working directory without the prefix home + separator, when it
\* starts with it; the whole working directory otherwise.
Remainder(wd, home) ==
    LET prefix == home \o <<"/">> IN
    IF Len(wd) >= Len(prefix) /\ \A i \in 1 .. Len(prefix) : wd[i] = prefix[i]
      THEN [i \in 1 .. Len(wd) - Len(prefix) |-> wd[i + Len(prefix)]]
      ELSE wd

\* p is a clean path: not empty, no trailing separator, no empty, "." or
\* ".." segment.
PlainRoot(p) ==
    /\ p # <<>> /\ p[Len(p)] # "/"
    /\ \A i \in 1 .. Len(p) - 1 : ~(p[i] = "/" /\ p[i + 1] = "/")
    /\ \A i \in DOMAIN SplitPath(p) :
          SplitPath(p)[i] # <<".">> /\ SplitPath(p)[i] # <<".", ".">>

\* s is a single path segment: not empty, no separator, not "." or "..".
PlainSegment(s) ==
    /\ s # <<>> /\ s # <<".">> /\ s # <<".", ".">>
    /\ \A i \in 1 .. Len(s) : s[i] # "/"

C13_NoDirNoPath ==
    (ret.fn = "LocalDir" /\ (ret.wd.err # Nil \/ ret.home.err # Nil))
    => ret.err # Nil /\ ret.path = <<>>

\* LocalDir has returned after os.Getwd succeeded and os.UserHomeDir
\* failed.
C13_Witness ==
    /\ ret.fn = "LocalDir"
    /\ ret.wd.err = Nil /\ ret.home.err # Nil
    /\ ret.err # Nil

\* C14: when the working directory is not absolute and cannot be made
\* absolute, LocalDir fails with an error.
C14_UnresolvableFails ==
    (/\ ret.fn = "LocalDir"
     /\ ret.wd.err = Nil /\ ret.wd.path # <<>> /\ ret.wd.path[1] # "/"
     /\ ret.abs.err # Nil)
    => ret.err # Nil

(***************************************************************************)
(* Claims about the path sanitizer.                                        *)
(***************************************************************************)
IsUpper(c) == \E i \in 1 .. 26 : UpperCase[i] = c

\* C15: the output of the sanitizer contains no path separator and no dot
\* and, in the revision that escapes upper-case letters, no upper-case
\* ASCII letter.
C15_NoSeparatorDotUpper ==
    replaced.pc \in {"once", "twice"} =>
       \A i \in 1 .. Len(replaced.out) :
          /\ replaced.out[i] # "/"
          /\ replaced.out[i] # "."
          /\ replaced.variant = "escaping" => ~IsUpper(replaced.out[i])

\* A string with a separator, a dot and an upper-case letter has been
\* sanitized by the escaping revision.
C15_Witness ==
    /\ replaced.pc = "once" /\ replaced.variant = "escaping"
    /\ \E i, j, k \in 1 .. Len(replaced.s) :
          replaced.s[i] = "/" /\ replaced.s[j] = "." /\ IsUpper(replaced.s[k])

\* C16: sanitizing a sanitized string gives the same string.
C16_Idempotent ==
    replaced.pc = "twice" => replaced.out = replaced.s

\* The output of a run that changed its input has been sanitized again.
C16_Witness ==
    /\ replaced.pc = "twice"
    /\ replaced.s # replaced.first
    /\ \E i \in 1 .. Len(replaced.first) : IsUpper(replaced.first[i])

\* The number of upper-case letters of s.
RECURSIVE UpperCount(_)
UpperCount(s) ==
    IF s = <<>> THEN 0
    ELSE (IF IsUpper(Head(s)) THEN 1 ELSE 0) + UpperCount(Tail(s))

\* C17: the sanitizer's output is the concatenation, left to right, of the
\* images of the input's characters ("-" for a separator or a dot, "!" and
\* the lower-case letter for an upper-case letter, the character itself
\* otherwise), and is as long as the input plus its upper-case letters.
C17_CharByChar ==
    (replaced.pc \in {"once", "twice"} /\ replaced.variant = "escaping") =>
       /\ replaced.out = Sanitized(replaced.s)
       /\ Len(replaced.out) = Len(replaced.s) + UpperCount(replaced.s)

\* An input with two upper-case letters around a character that is copied
\* has been sanitized.
C17_Witness ==
    /\ replaced.pc = "once" /\ replaced.variant = "escaping"
    /\ Len(replaced.s) = 3
    /\ IsUpper(replaced.s[1]) /\ replaced.s[2] = "_" /\ IsUpper(replaced.s[3])
    /\ Len(replaced.out) = 5

\* The letter c in the other case; any other byte is itself.
SwapCase(c) ==
    IF \E i \in 1 .. 26 : UpperCase[i] = c
      THEN LowerCase[CHOOSE i \in 1 .. 26 : UpperCase[i] = c]
    ELSE IF \E i \in 1 .. 26 : LowerCase[i] = c
      THEN UpperCase[CHOOSE i \in 1 .. 26 : LowerCase[i] = c]
    ELSE c

\* The strings that differ from s in the case of letters only.
CaseVariants(s) ==
    {t \in [DOMAIN s -> {s[i] : i \in DOMAIN s} \cup {SwapCase(s[i]) : i \in DOMAIN s}] :
        \A i \in DOMAIN s : t[i] \in {s[i], SwapCase(s[i])}}

Dashed == {".", Separator, "-"}

\* The strings that differ from s only by a dot, a separator or a dash
\* where s has one of them.
DashVariants(s) ==
    {t \in [DOMAIN s -> {s[i] : i \in DOMAIN s} \cup Dashed] :
        \A i \in DOMAIN s : IF s[i] \in Dashed THEN t[i] \in Dashed ELSE t[i] = s[i]}

\* C30: in the revision that escapes upper-case letters, an input without
\* "!" and any other input that differs from it in the case of letters only
\* are sanitized to different outputs, and inputs that differ only by dot,
\* separator or dash at some positions are sanitized to the same output.
C30_CaseKeptDashesMerged ==
    (replaced.pc = "once" /\ replaced.variant = "escaping") =>
       /\ (\A i \in DOMAIN replaced.s : replaced.s[i] # "!") =>
             \A t \in CaseVariants(replaced.s) \ {replaced.s} :
                Replace(dirnameReplacer, t) # replaced.out
       /\ \A t \in DashVariants(replaced.s) :
             Replace(dirnameReplacer, t) = replaced.out

\* C30 witness: an input with a letter of each case and a dot, and no "!",
\* has been sanitized by the escaping revision.
C30_Witness ==
    /\ replaced.pc = "once" /\ replaced.variant = "escaping"
    /\ replaced.s = <<"A", "m", ".">>
    /\ replaced.out = <<"!", "a", "m", "-">>
    /\ Cardinality(CaseVariants(replaced.s)) = 4
    /\ Cardinality(DashVariants(replaced.s)) = 3

(***************************************************************************)
(* Claims about the root and GlobalDir.                                    *)
(***************************************************************************)
\* C18: at initialisation the root is the value of LLMCTXENV_ROOT when that
\* is set and not empty, and <home>/.llmctxenv when it is unset or empty
\* (home being the value of HOME, a clean path).
C18_RootResolution ==
    LET override == init0.env["LLMCTXENV_ROOT"]
        home     == init0.env["HOME"]
    IN /\ override # <<>> => init0.root = override
       /\ (override = <<>> /\ PlainRoot(home)) => init0.root = home \o <<"/", ".", "l", "l", "m", "c", "t", "x", "e", "n", "v">>

\* The package was initialised without an override, under /home/user.
C18_Witness ==
    /\ init0.env["LLMCTXENV_ROOT"] = <<>>
    /\ init0.env["HOME"] = HomeUser
    /\ init0.root = <<"/", "h", "o", "m", "e", "/", "u", "s", "e", "r", "/", ".", "l", "l", "m", "c", "t", "x", "e", "n", "v">>
    /\ LLMCtxEnvRoot = init0.root

\* C19, as claimed: as long as the root variable has not been assigned to,
\* GlobalDir and LocalDir return what they return in the environment of
\* initialisation, whatever LLMCTXENV_ROOT and HOME have become.
C19_ResultsFixed ==
    ~assigned =>
       /\ ret.fn = "GlobalDir" => ret.path = GlobalDirPath(init0.root, ret.provider)
       /\ (ret.fn = "LocalDir" /\ ret.wd.err = Nil) =>
             LET r == LocalDirResult(init0.root, ret.provider, ret.wd, ret.abs,
                                     UserHomeDir(init0.env))
             IN ret.path = r.path /\ ret.err = r.err

\* C19, amended: as long as the root variable has not been assigned to, it
\* keeps the value of initialisation whatever LLMCTXENV_ROOT and HOME have
\* become, and GlobalDir and LocalDir work from that root; LocalDir takes
\* the home directory it strips from HOME as it is at the call.
C19_RootFixed ==
    ~assigned =>
       /\ LLMCtxEnvRoot = init0.root
       /\ ret.fn # "none" => ret.root = init0.root
       /\ ret.fn = "GlobalDir" => ret.path = GlobalDirPath(init0.root, ret.provider)
       /\ ret.fn = "LocalDir" =>
             LET r == LocalDirResult(init0.root, ret.provider, ret.wd, ret.abs, ret.home)
             IN ret.path = r.path /\ ret.err = r.err

\* HOME has been changed so that the root would now resolve differently,
\* the root variable has not been assigned to, and LocalDir has been called
\* under the new HOME.
C19_Witness ==
    /\ ~assigned
    /\ ret.fn = "LocalDir" /\ ret.err = Nil
    /\ ret.home.path # init0.env["HOME"]
    /\ InitRoot(env) # init0.root

\* C20, as claimed: GlobalDir returns <root>/global/<provider>, the
\* provider being the last segment verbatim, for every provider, the empty
\* one included, and every root.
C20_GlobalDirVerbatim ==
    ret.fn = "GlobalDir" => ret.path = ret.root \o <<"/", "g", "l", "o", "b", "a", "l", "/">> \o ret.provider

\* C20, amended: for a root that is a clean path GlobalDir returns
\* <root>/global/<provider> when the provider is a single path segment, and
\* <root>/global when the provider is empty.
C20_GlobalDirJoined ==
    (ret.fn = "GlobalDir" /\ PlainRoot(ret.root)) =>
       /\ PlainSegment(ret.provider) =>
             ret.path = ret.root \o <<"/", "g", "l", "o", "b", "a", "l", "/">> \o ret.provider
       /\ ret.provider = <<>> => ret.path = ret.root \o <<"/", "g", "l", "o", "b", "a", "l">>

\* GlobalDir has been called for claude under the test root.
C20_Witness ==
    /\ ret.fn = "GlobalDir"
    /\ ret.root = TestRoot /\ ret.provider = ProviderClaudeCode
    /\ ret.path = <<"/", "t", "m", "p", "/", "t", "e", "s", "t", "-", "l", "l", "m", "c", "t", "x", "/", "g", "l", "o", "b", "a", "l", "/", "c", "l", "a", "u", "d", "e">>

\* LocalDir has returned a path for a provider of the registry.
LocalDirOfProvider ==
    LocalDirCalled /\ ret.err = Nil /\ ret.provider = ProviderClaudeCode

\* <root>/local/<provider>
ProviderLocalDir == Join(<<ret.root, LocalSeg, ret.provider>>)

\* ret.path is a direct child of <root>/local/<provider>: that directory, a
\* separator, and one component that is not empty, holds no separator and
\* is neither "." nor "..".
DirectChild ==
    LET base == ProviderLocalDir
        n    == Len(base)
    IN /\ Len(ret.path) > n + 1
       /\ SubSeq(ret.path, 1, n + 1) = base \o <<Separator>>
       /\ PlainSegment(SubSeq(ret.path, n + 2, Len(ret.path)))

\* The working directory LocalDir sanitizes is home + separator.
AtHomeWithSeparator ==
    (IF ~IsAbs(ret.wd.path) /\ ret.abs.err = Nil THEN ret.abs.path ELSE ret.wd.path)
       = ret.home.path \o <<Separator>>

\* C29 as stated: every successful LocalDir for a provider of the registry
\* returns a direct child of <root>/local/<provider>.
C29_AlwaysDirectChild == LocalDirOfProvider => DirectChild

\* C29: a successful LocalDir for a provider of the registry returns
\* <root>/local/<provider> itself when the working directory is written as
\* home + separator, and a direct child of it in every other case.
C29_ChildOrProviderDir ==
    LocalDirOfProvider =>
       IF AtHomeWithSeparator THEN ret.path = ProviderLocalDir ELSE DirectChild

\* C29 witness: LocalDir has returned direct children for a directory under
\* home with a dot and upper-case letters in its name.
C29_Witness ==
    /\ LocalDirOfProvider /\ DirectChild
    /\ ret.home.path = HomeUser
    /\ ret.wd.path = <<"/", "h", "o", "m", "e", "/", "u", "s", "e", "r", "/", "M", "y", ".", "A", "p", "p">>
    /\ ret.path = ProviderLocalDir \o <<"/", "!", "m", "y", "-", "!", "a", "p", "p">>

(***************************************************************************)
(* SpecList: the list command is run up to MaxRuns times, in one of its    *)
(* two revisions, over a root that is missing, read-only or there, with    *)
(* the provider's directory missing, a file, a link, unreadable, or        *)
(* holding files, directories and links.                                   *)
(***************************************************************************)
ListNames == {<<>>, <<"claude">>, <<"gemini">>}

ClaudeDir == <<"r", "global", "claude">>

\* What an entry of the provider's directory can be.
ListEntryOptions(n) ==
    {Empty,
     Append(ClaudeDir, n) :> File(<<1>>, {"r", "w"}),
     Append(ClaudeDir, n) :> Dir({"r", "w"}),
     Append(ClaudeDir, n) :> Link(<<"t">>)}

ListTree ==
    (<<"r">> :> Dir({"r", "w"})) @@ (<<"r", "global">> :> Dir({"r", "w"}))

ListWorlds ==
    {Empty,
     <<"r">> :> Dir({"r", "w"}),
     <<"r">> :> Dir({"r"}),
     ListTree,
     (<<"r">> :> Dir({"r", "w"})) @@ (<<"r", "global">> :> Dir({"r"})),
     ListTree @@ (ClaudeDir :> File(<<1>>, {"r", "w"})),
     ListTree @@ (ClaudeDir :> Link(<<"x">>)),
     ListTree @@ (ClaudeDir :> Link(<<"t">>)),
     ListTree @@ (ClaudeDir :> Dir({})) @@ (Append(ClaudeDir, "a") :> File(<<1>>, {"r", "w"}))}
      \cup {ListTree @@ (ClaudeDir :> Dir({"r", "w"})) @@ ea @@ eb @@ ed :
              ea \in ListEntryOptions("a"), eb \in ListEntryOptions("b"),
              ed \in ListEntryOptions("d")}

InitList ==
    /\ umask \in Umasks
    /\ \E w \in ListWorlds :
          fs = (<<"t">> :> Dir({"r", "w"})) @@ (<<"t", "c">> :> File(<<7>>, {"r", "w"})) @@ w
    /\ fs0 = fs
    /\ stack = <<>> /\ result = <<>> /\ failed = <<>> /\ call = <<>> /\ created = <<>>
    /\ closes = <<>> /\ branch = <<>> /\ round = <<>>
    /\ HashIdle
    /\ CtxIdle
    /\ \E rev \in {"provider", "cli"} :
          list = [rev |-> rev, runs |-> 0, name |-> <<>>, dir |-> <<>>, err |-> Nil, out |-> <<>>]

NextList ==
    \/ \E provider \in ListNames : RunList(provider)
    \/ \E cliname \in ListNames : RunListCli(cliname)

SpecList == InitList /\ [][NextList]_vars

(***************************************************************************)
(* Claims about the list command (SpecList)                                *)
(***************************************************************************)
\* The last run had a flag that is not empty, so that there was a directory
\* to list.
Listing == list.runs > 0 /\ list.name # <<>>

\* C21: when the directory the list command is about to list is not there,
\* the command makes it with mode 0700, prints nothing and returns nil,
\* whatever the provider or cli name (not empty) is.
C21_MissingDirCreated ==
    (Listing /\ Stat(fs0, list.dir).err = "ENOENT") =>
       /\ list.err = Nil
       /\ list.out = <<>>
       /\ Stat(fs, list.dir).err = Nil
       /\ Stat(fs, list.dir).node = Dir({"r", "w"})

\* The names a listing of the directory at real path dir has to show.
NonDirs(f, dir) ==
    {NameSeq[i] : i \in {j \in DOMAIN NameSeq :
                           NodeAt(f, Append(dir, NameSeq[j])).kind \notin {"none", "dir"}}}

\* out is "files:\n" followed by the names of S in ascending order, joined
\* by newlines.
PrintsExactly(out, S) ==
    /\ out # <<>> /\ out[1] = "files:\n"
    /\ Len(out) = IF S = {} THEN 1 ELSE 2 * Cardinality(S)
    /\ {out[2 * i] : i \in 1 .. Len(out) \div 2} = S
    /\ \A i \in 1 .. Len(out) \div 2 - 1 :
          out[2 * i + 1] = "\n" /\ Less(out[2 * i], out[2 * i + 2])

\* C22, as claimed: when the listed directory is there, the command prints
\* "files:\n" and the names of exactly its entries that are not
\* directories, ascending, joined by newlines.
C22_ListsNonDirs ==
    (Listing /\ Stat(fs0, list.dir).node.kind = "dir") =>
       /\ list.err = Nil
       /\ PrintsExactly(list.out, NonDirs(fs0, Stat(fs0, list.dir).path))

\* C22, amended: the same when the listed directory is there and can be
\* read; when it cannot be read the command prints nothing and returns
\* the error of os.ReadDir.
C22_ListsReadable ==
    (Listing /\ Stat(fs0, list.dir).node.kind = "dir") =>
       IF "r" \in Stat(fs0, list.dir).node.perm
         THEN /\ list.err = Nil
              /\ PrintsExactly(list.out, NonDirs(fs0, Stat(fs0, list.dir).path))
              /\ fs = fs0
         ELSE list.err = "EACCES" /\ list.out = <<>> /\ fs = fs0

\* The directory held two files, a link to a directory and a directory;
\* the files and the link were printed, in order.
C22_Witness ==
    /\ Listing
    /\ NodeAt(fs0, Append(list.dir, "a")).kind = "file"
    /\ NodeAt(fs0, Append(list.dir, "b")).kind = "link"
    /\ NodeAt(fs0, Append(list.dir, "d")).kind = "dir"
    /\ list.out = <<"files:\n", "a", "\n", "b">>

====
